---- MODULE Spec2Model ----
(***************************************************************************)
(* A state-machine model of magicsock.Conn (wgengine/magicsock): the       *)
(* endpoint-update scheduler (ReSTUN / updateEndpoints), shutdown          *)
(* (Conn.Close, connBind.Open/Close), the UDP and DERP receive functions,  *)
(* relay sends (sendAddr) and the peer map maintained by SetNetworkMap.    *)
(***************************************************************************)
EXTENDS Integers, Sequences, FiniteSets, TLC

\* ------------------------------------------------------------------------
\* Bounds of the model
\* ------------------------------------------------------------------------
\* slots for concurrently running updateEndpoints goroutines
MaxGoroutines == 2
\* concurrent callers of Conn.Close
MaxClosers == 2
\* calls of SetBlockEndpoints in one behaviour
MaxBlockCalls == 2
\* steps of the clock in one behaviour
MaxTicks == 3
\* capacity of a relay write queue (bufferedDerpWritesBeforeDrop)
MaxDerpWrites == 2
\* the latest time of a call of endpointTracker.update
MaxTime == 6
\* callers of Rebind at a time, and calls of Rebind in one behaviour
MaxRebinders == 2
MaxRebinds == 2
\* the highest port a caller can prefer
MaxPort == 2
QueueSize == 1

\* ------------------------------------------------------------------------
\* Values
\* ------------------------------------------------------------------------
NoReason == ""
WhyPeriodic == "periodic"
WhyPortMap == "portmap-changed"
WhySetPrivateKey == "set-private-key"
WhyNonZeroPeers == "non-zero-peers"
WhyDerpMap == "derp-map-update"
WhySetBlockEndpoints == "SetBlockEndpoints"

ZeroKey == 0

Families == {"udp4", "udp6"}
RecvFns == Families \cup {"derp"}

EndpointSTUN == "stun"
EndpointLocal == "local"
EpStun == [Addr |-> "a1", Type |-> EndpointSTUN]
EpLocal == [Addr |-> "a2", Type |-> EndpointLocal]

Goroutines == 1..MaxGoroutines
Closers == 1..MaxClosers

IdleUpdater == [pc |-> "idle", why |-> NoReason, eps |-> <<>>]

\* the results of Send, sendAddr and sendDiscoMessage
NoError == "nil"
ErrConnClosed == "errConnClosed"
ErrDropDerpPacket == "errDropDerpPacket"
ErrNetworkDown == "errNetworkDown"
ErrSocket == "net.ErrClosed"

\* destinations: a UDP address, or the magic address of a DERP region
UDPAddr == "udp4"
DerpMagicIPAddr == "derp"
SendAddrs == {UDPAddr, DerpMagicIPAddr}

IdleSender == [pc |-> "idle", call |-> "none", sent |-> FALSE,
               err |-> NoError, afterClose |-> FALSE]

\* node keys, disco keys (ZeroKey is the zero value of both) and UDP addresses
NodeKeys == {1, 2, 3}
DiscoKeys == {1, 2}
Addrs == {"a1", "a2"}

\* a nil *peerInfo, and the peerInfo objects that can be live at once
NoPeer == 0
PeerInfos == 1..(Cardinality(NodeKeys) + 1)
FreeCell == [free |-> TRUE]

NilNetMap == [isNil |-> TRUE, Peers |-> <<>>]

\* transaction ids of disco pings; NoTx is the zero stun.TxID
TxIDs == {1, 2}
NoTx == 0

\* the zero netip.AddrPort
NoAddr == "invalid"

\* the zero time.Time: the time of an address that was never in the input
\* of update, of endpoints that were never recorded, of a ping never got
NoTime == -1

\* no Pong: the zero disco.Pong with no destination
NoPong == [TxID |-> NoTx, Src |-> NoAddr, ipDst |-> NoAddr,
           dstKey |-> ZeroKey, discoDest |-> ZeroKey]

\* nothing was received yet; a received frame is a disco frame or not, is
\* reported to wireguard-go or not, and may cause a Pong or a call of
\* handleCallMeMaybe for the endpoint of key; dup is whether it was a ping
\* that addCandidateEndpoint found to be a duplicate, metric the counter
\* of disco frames that was incremented for it
NoRx == [isDisco |-> FALSE, reported |-> FALSE, act |-> "none",
         key |-> ZeroKey, dup |-> FALSE, metric |-> "none"]

\* the zero ippEndpointCache; in a cache that is set, de is the node key of
\* the cached endpoint and current whether gen is still the endpoint's
\* numStopAndReset
NoCache == [set |-> FALSE]

\* derpRecvCh is made with buffer size 1
DerpRecvChCap == 1
EmptyReadResult == "empty"
DerpPacket == "pkt"

VARIABLES
    conn,           \* the Conn fields guarded by Conn.mu, and its atomics
    pconn,          \* pconn4 / pconn6: the RebindingUDPConn of each family
    bind,           \* connBind: closed flag and holder of connBind.mu
    derpRecvCh,     \* Conn.derpRecvCh, a buffered channel
    recv,           \* the goroutines wireguard-go runs the ReceiveFuncs in
    upd,            \* running updateEndpoints goroutines
    rebinder,       \* position of a caller inside Rebind / SetPreferredPort
    closer,         \* position of each caller of Conn.Close
    closeRet,       \* what each Close call returned
    hist,           \* history of requests, for the scheduling claims
    peerMap,        \* Conn.peerMap: the three indices over the endpoints
    netMap,         \* Conn.netMap: the peers of the last network map
    derpWriteCh,    \* the write queue of the relay connection in use
    sender,         \* a caller of Send / sendDiscoMessage and its last result
    calc,           \* arguments and results of the last betterAddr calls
    rx,             \* what became of the last datagram or relay frame received
    tracker,        \* Conn.endpointTracker, the clock and its last call
    discoInfo,      \* Conn.discoInfo: the disco keys that have an entry
    epCache,        \* the ippEndpointCache of each UDP receive function
    race,           \* Rebind step by step: Conn.mu, the RebindingUDPConns,
                    \* the callers of Rebind and the readers of the sockets
    binder,         \* bindSocket port by port: the preferred port, the socket
                    \* of each family and the ports the last call tried
    timer,          \* the delay of periodicReSTUNTimer, and what idleFunc and
                    \* ForceBackgroundSTUN gave when it was last decided
    notified,       \* the calls of epFunc: the endpoints of the last one and
                    \* of the one before
    cmm,            \* the node keys of the endpoints for which a goroutine
                    \* started for handleCallMeMaybe has yet to run
    determined,     \* the endpoints determineEndpoints returned last
    duo,            \* two managers that are each other's peer: the peer map
                    \* of each, and the disco messages between them
    link,           \* the netstack link Endpoint: its queue, the calls of
                    \* WritePackets and of Close, and what was read
    callme,         \* the clock, and the CallMeMaybe last sent to each peer
    pinger          \* a peer map and the discoInfo of the senders of pings

xSock == <<pconn, recv>>
xBind == <<bind, derpRecvCh>>
xClose == <<closer, closeRet>>
xEarly == <<calc, rx, tracker, discoInfo, epCache, race>>
xLate == <<binder, timer, notified, cmm, determined, duo, link, callme, pinger>>
xLateButBinder == <<timer, notified, cmm, determined, duo, link, callme, pinger>>
xLateButTimer == <<binder, notified, cmm, determined, duo, link, callme, pinger>>
xLateButNotified == <<binder, timer, cmm, determined, duo, link, callme, pinger>>
xLateButCmm == <<binder, timer, notified, determined, duo, link, callme, pinger>>
xLateButDetermined == <<binder, timer, notified, cmm, duo, link, callme, pinger>>
xLateButDuo == <<binder, timer, notified, cmm, determined, link, callme, pinger>>
xLateButLink == <<binder, timer, notified, cmm, determined, duo, callme, pinger>>
xLateButCallme == <<binder, timer, notified, cmm, determined, duo, link,
                   pinger>>
xLateButPinger == <<binder, timer, notified, cmm, determined, duo, link,
                   callme>>
xAux == <<xEarly, xLate>>
xAuxButCalc == <<rx, tracker, discoInfo, epCache, race, xLate>>
xAuxButTracker == <<calc, rx, discoInfo, epCache, race, xLate>>
xAuxRest == <<calc, tracker, race, xLateButCmm>>
xOther == <<peerMap, netMap, derpWriteCh, sender, xAux>>
vars == <<conn, pconn, bind, derpRecvCh, recv, upd, rebinder, closer,
          closeRet, hist, peerMap, netMap, derpWriteCh, sender, xAux>>

\* ------------------------------------------------------------------------
\* Helpers
\* ------------------------------------------------------------------------
Running == {g \in Goroutines : upd[g].pc # "idle"}
FreeSlots == {g \in Goroutines : upd[g].pc = "idle"}
FirstFree == CHOOSE g \in FreeSlots : \A h \in FreeSlots : g <= h

\* "go c.updateEndpoints(why)"
GoUpdateEndpoints(u, why) ==
    [u EXCEPT ![FirstFree] = [pc |-> "start", why |-> why, eps |-> <<>>]]

\* stopPeriodicReSTUNTimerLocked
stopPeriodicReSTUNTimerLocked(c) == [c EXCEPT !.periodicReSTUNTimer = "nil"]

\* derpWriteChanOfAddr reports a channel only on an open Conn with the network
\* up, a DERP map and a private key
wantDerpChan(c) ==
    c.networkUp /\ c.derpMap /\ ~c.closed /\ c.privateKey # ZeroKey

\* derpWriteChanOfAddr: the first call that returns a channel makes activeDerp
\* non-nil and starts the goroutine that closes derpStarted after dc.Connect
derpWriteChanOfAddr(c) ==
    IF wantDerpChan(c) /\ ~c.activeDerp
    THEN [c EXCEPT !.activeDerp = TRUE, !.derpConnecting = TRUE]
    ELSE c

\* startDerpHomeConnectLocked: goDerpConnect(myDerp)
startDerpHomeConnectLocked(c) ==
    IF c.myDerp THEN derpWriteChanOfAddr(c) ELSE c

\* goroutinesRunningLocked as it would be without the wait on derpStarted
goroutinesRunningNoDerp(c) == c.endpointsUpdateActive

\* goroutinesRunningLocked
goroutinesRunningLocked(c) ==
    \/ c.endpointsUpdateActive
    \/ c.activeDerp /\ ~c.derpStarted

\* shouldDoPeriodicReSTUNLocked as it would be without the override by
\* control
shouldDoPeriodicReSTUNNoForce(c, idle, force) ==
    IF ~c.networkUp THEN FALSE
    ELSE IF c.peerSet = {} \/ c.privateKey = ZeroKey THEN FALSE
    ELSE ~idle

\* shouldDoPeriodicReSTUNLocked; idle is "idleFunc() > sessionActiveTimeout",
\* force is netMap.Debug.ForceBackgroundSTUN
shouldDoPeriodicReSTUNLocked(c, idle, force) ==
    IF ~c.networkUp THEN FALSE
    ELSE IF c.peerSet = {} \/ c.privateKey = ZeroKey THEN FALSE
    ELSE IF idle THEN force
    ELSE TRUE

\* shouldRebindOnFailedNetcheckV4Send
shouldRebindOnFailedNetcheckV4Send(c) == c.derpMap /\ ~c.blockEndpoints

\* ------------------------------------------------------------------------
\* Endpoints
\* ------------------------------------------------------------------------
\* the zero addrLatency: endpoint.bestAddr when no address is chosen
NoBestAddr == [addr |-> NoAddr, latency |-> 0]

\* endpoint.resetLocked: forgets the best address and the pings in flight
resetLocked(ep) ==
    [ep EXCEPT !.bestAddr = NoBestAddr, !.trustBestAddr = FALSE,
               !.sentPing = {}]

\* endpoint.noteConnectivityChange: the best address is no longer trusted
noteConnectivityChange(ep) == [ep EXCEPT !.trustBestAddr = FALSE]

\* peerMap.forEachEndpoint(ep.stopAndReset()), as far as the endpoints go
stopAndResetEach(pm) ==
    [pm EXCEPT !.heap = [i \in DOMAIN pm.heap |->
                           IF pm.heap[i].free THEN pm.heap[i]
                           ELSE [pm.heap[i] EXCEPT !.ep = resetLocked(@)]]]

\* peerMap.forEachEndpoint(ep.noteConnectivityChange())
noteConnectivityChangeEach(pm) ==
    [pm EXCEPT !.heap = [i \in DOMAIN pm.heap |->
                           IF pm.heap[i].free THEN pm.heap[i]
                           ELSE [pm.heap[i] EXCEPT
                                    !.ep = noteConnectivityChange(@)]]]

\* endpoint.setBlockEndpoints(blocked): the endpoint takes the setting, and
\* when it is blocked its candidate addresses are cleared and it has no best
\* address
setBlockEndpoints(ep, blocked) ==
    IF blocked
    THEN [ep EXCEPT !.endpointState = {}, !.gotPing = {},
                    !.bestAddr = NoBestAddr, !.trustBestAddr = FALSE]
    ELSE ep

\* SetBlockEndpoints as it would be if it left the endpoints alone
setBlockEndpointsNone(pm, blocked) == pm

\* peerMap.forEachEndpoint(ep.setBlockEndpoints(block))
setBlockEndpointsEach(pm, blocked) ==
    [pm EXCEPT !.heap = [i \in DOMAIN pm.heap |->
                           IF pm.heap[i].free THEN pm.heap[i]
                           ELSE [pm.heap[i] EXCEPT
                                    !.ep = setBlockEndpoints(@, blocked)]]]

\* the node keys of the endpoints in the peer map
endpointKeys(pm) == {k \in DOMAIN pm.byNodeKey : pm.byNodeKey[k] # NoPeer}

\* stopAndReset adds one to numStopAndReset of the endpoint: a cache that
\* holds an endpoint of keys no longer has its generation
staleCaches(caches, keys) ==
    [f \in DOMAIN caches |->
        IF caches[f].set /\ caches[f].de \in keys
        THEN [caches[f] EXCEPT !.current = FALSE] ELSE caches[f]]

\* resetEndpointStates: noteConnectivityChange on every endpoint
resetEndpointStates == peerMap' = noteConnectivityChangeEach(peerMap)

\* ------------------------------------------------------------------------
\* ReSTUN and SetBlockEndpoints
\* ------------------------------------------------------------------------
\* ReSTUN as it would be without the test of endpointsUpdateActive
ReSTUNNoActiveCheck(c, why) ==
    /\ UNCHANGED hist
    /\ IF c.closed \/ (c.privateKey = ZeroKey /\ c.everHadKey)
       THEN conn' = c /\ UNCHANGED upd
       ELSE /\ FreeSlots # {}
            /\ conn' = [c EXCEPT !.endpointsUpdateActive = TRUE]
            /\ upd' = GoUpdateEndpoints(upd, why)

\* ReSTUN(why), on the Conn state c
ReSTUN(c, why) ==
    /\ hist' = [hist EXCEPT
            !.reqDuring = IF c.endpointsUpdateActive /\ ~c.closed
                          THEN why ELSE @,
            !.queuedReq = IF /\ c.endpointsUpdateActive /\ ~c.closed
                             /\ ~(c.privateKey = ZeroKey /\ c.everHadKey)
                          THEN why ELSE @]
    /\ IF c.closed THEN conn' = c /\ UNCHANGED upd
       ELSE IF c.privateKey = ZeroKey /\ c.everHadKey
            THEN conn' = c /\ UNCHANGED upd
       ELSE IF c.endpointsUpdateActive
            THEN /\ conn' = [c EXCEPT !.wantEndpointsUpdate = why]
                 /\ UNCHANGED upd
       ELSE /\ FreeSlots # {}
            /\ conn' = [c EXCEPT !.endpointsUpdateActive = TRUE]
            /\ upd' = GoUpdateEndpoints(upd, why)

\* onPortMapChanged: the port mapper calls ReSTUN("portmap-changed")
onPortMapChanged ==
    /\ ReSTUN(conn, WhyPortMap)
    /\ UNCHANGED <<xSock, xBind, rebinder, xClose, xOther>>

\* a goroutine started by "go c.ReSTUN(why)" runs
GoReSTUN ==
    /\ conn.spawned # NoReason
    /\ ReSTUN([conn EXCEPT !.spawned = NoReason], conn.spawned)
    /\ UNCHANGED <<xSock, xBind, rebinder, xClose, xOther>>

\* periodicReSTUNTimer fires: time.AfterFunc starts a goroutine for
\* doPeriodicSTUN
PeriodicTimerFires ==
    /\ conn.periodicReSTUNTimer = "armed"
    /\ conn' = [conn EXCEPT !.periodicReSTUNTimer = "fired",
                            !.timerGoroutine = TRUE]
    /\ UNCHANGED <<xSock, xBind, upd, rebinder, xClose, hist, xOther>>

\* doPeriodicSTUN
doPeriodicSTUN ==
    /\ conn.timerGoroutine
    /\ ReSTUN([conn EXCEPT !.timerGoroutine = FALSE], WhyPeriodic)
    /\ UNCHANGED <<xSock, xBind, rebinder, xClose, xOther>>

\* SetBlockEndpoints(block)
SetBlockEndpoints(block) ==
    /\ hist.blockCalls < MaxBlockCalls
    /\ LET didChange == conn.blockEndpoints # block
           c1 == [conn EXCEPT !.blockEndpoints = block]
       IN  /\ hist' = [hist EXCEPT
                  !.blockCalls = @ + 1,
                  !.reqDuring = IF didChange /\ conn.endpointsUpdateActive
                                THEN WhySetBlockEndpoints ELSE @,
                  !.queuedReq = IF didChange /\ conn.endpointsUpdateActive
                                THEN WhySetBlockEndpoints ELSE @]
           /\ IF ~didChange THEN conn' = c1 /\ UNCHANGED upd
              ELSE IF conn.endpointsUpdateActive
                   THEN /\ conn' = [c1 EXCEPT !.wantEndpointsUpdate =
                                                  WhySetBlockEndpoints]
                        /\ UNCHANGED upd
              ELSE /\ FreeSlots # {}
                   /\ conn' = [c1 EXCEPT !.endpointsUpdateActive = TRUE]
                   /\ upd' = GoUpdateEndpoints(upd, WhySetBlockEndpoints)
           /\ peerMap' = IF didChange THEN setBlockEndpointsEach(peerMap, block)
                         ELSE peerMap
    /\ UNCHANGED <<xSock, xBind, rebinder, xClose, netMap, derpWriteCh,
                   sender, xAux>>

\* ------------------------------------------------------------------------
\* Configuration calls
\* ------------------------------------------------------------------------
\* SetPrivateKey(privateKey)
SetPrivateKey(newKey) ==
    /\ newKey # conn.privateKey
    /\ LET oldKey == conn.privateKey
           c1 == [conn EXCEPT !.privateKey = newKey]
           c2 == IF oldKey = ZeroKey
                 THEN [c1 EXCEPT !.everHadKey = TRUE,
                                 !.spawned = WhySetPrivateKey]
                 ELSE IF newKey = ZeroKey
                      THEN [stopPeriodicReSTUNTimerLocked(c1)
                               EXCEPT !.onEndpointRefreshed = {}]
                 ELSE c1
       IN  conn' = IF newKey # ZeroKey THEN startDerpHomeConnectLocked(c2)
                   ELSE c2
    /\ IF newKey = ZeroKey
       THEN /\ peerMap' = stopAndResetEach(peerMap)
            /\ epCache' = staleCaches(epCache, endpointKeys(peerMap))
       ELSE UNCHANGED <<peerMap, epCache>>
    /\ UNCHANGED <<xSock, xBind, upd, rebinder, xClose, hist, netMap,
                   derpWriteCh, sender, xAuxRest, rx, discoInfo, cmm>>

\* UpdatePeers(newPeers)
UpdatePeers(newPeers) ==
    /\ newPeers # conn.peerSet
    /\ conn' = [conn EXCEPT !.peerSet = newPeers,
                            !.spawned = IF conn.peerSet = {} /\ newPeers # {}
                                        THEN WhyNonZeroPeers ELSE @]
    /\ UNCHANGED <<xSock, xBind, upd, rebinder, xClose, hist, xOther>>

\* SetNetworkUp(up)
SetNetworkUp(up) ==
    /\ conn.networkUp # up
    /\ conn' = IF up
               THEN startDerpHomeConnectLocked([conn EXCEPT !.networkUp = TRUE])
               ELSE [conn EXCEPT !.networkUp = FALSE]
    /\ UNCHANGED <<xSock, xBind, upd, rebinder, xClose, hist, xOther>>

\* SetDERPMap(dm): dm is whether the map is non-nil
SetDERPMap(dm) ==
    /\ conn.derpMap # dm
    /\ conn' = [conn EXCEPT !.derpMap = dm,
                            !.spawned = IF dm THEN WhyDerpMap ELSE @]
    /\ UNCHANGED <<xSock, xBind, upd, rebinder, xClose, hist, xOther>>

\* the goroutine started by the first derpWriteChanOfAddr: dc.Connect returns
\* and derpStarted is closed (followed by muCond.Broadcast)
DerpConnectDone ==
    /\ conn.derpConnecting
    /\ conn' = [conn EXCEPT !.derpConnecting = FALSE, !.derpStarted = TRUE]
    /\ UNCHANGED <<xSock, xBind, upd, rebinder, xClose, hist, xOther>>

\* ------------------------------------------------------------------------
\* Sockets
\* ------------------------------------------------------------------------
UDPConn == [kind |-> "udp", open |-> TRUE]
BlockForeverConn == [kind |-> "blockForever", open |-> TRUE]

\* RebindingUDPConn.Close: the current socket is closed and stays current
closePconn(p, f) == [p EXCEPT ![f].open = FALSE]

\* bindSocket(ruc, network, curPortFate): close and bind are one step for the
\* readers; ok is whether some candidate port could be bound
bindSocket(p, f, ok) ==
    [p EXCEPT ![f] = IF conn.alwaysDERP \/ ~ok THEN BlockForeverConn
                     ELSE UDPConn]

\* a reader blocked on the socket that bindSocket replaced sees its read fail
\* on a socket that is no longer the current one
rebindReaders(r, fams) ==
    [fn \in RecvFns |-> IF fn \in fams /\ r[fn] = "reading" THEN "readingOld"
                        ELSE r[fn]]

\* rebind(curPortFate): IPv6 then IPv4; only an IPv4 failure is an error
rebind(ok4, ok6) ==
    /\ pconn' = bindSocket(bindSocket(pconn, "udp6", ok6), "udp4", ok4)
    /\ recv' = rebindReaders(recv, Families)

rebindErr(ok4) == ~conn.alwaysDERP /\ ~ok4

\* ------------------------------------------------------------------------
\* Rebind step by step
\* ------------------------------------------------------------------------
\* nobody holds the mutex
NoHolder == 0

Rebinders == 1..MaxRebinders

\* a caller that is not inside Rebind
IdleRebinder == [step |-> "idle", f |-> "udp6"]

\* a RebindingUDPConn: the holder of its mutex, its current socket (they are
\* numbered as they are made) and whether that socket is open
newRuc == [mu |-> NoHolder, cur |-> 0, open |-> TRUE]

\* a receive function that is not being called
IdleReader == [pc |-> "idle", sock |-> 0, retried |-> FALSE]

\* mu is the holder of Conn.mu, calls the number of calls of Rebind so far
newRace ==
    [mu |-> NoHolder, calls |-> 0,
     ruc |-> [f \in Families |-> newRuc],
     rb |-> [i \in Rebinders |-> IdleRebinder],
     rd |-> [f \in Families |-> IdleReader]]

\* Conn.Close: c.pconn6.Close() and c.pconn4.Close() close the current
\* sockets
closeRucs(r) ==
    [r EXCEPT !.ruc = [f \in Families |-> [r.ruc[f] EXCEPT !.open = FALSE]]]

\* the socket numbered sock of the RebindingUDPConn ruc is closed: it is the
\* current one and was closed, or it was replaced (closeLocked comes before
\* setConnLocked)
socketClosed(ruc, sock) == sock < ruc.cur \/ ~ruc.open

\* Rebind: takes Conn.mu; on a closed Conn it returns at once
RaceRebind(i) ==
    /\ race.rb[i].step = "idle"
    /\ race.mu = NoHolder
    /\ race.calls < MaxRebinds
    /\ race' = IF conn.closed THEN [race EXCEPT !.calls = @ + 1]
               ELSE [race EXCEPT !.calls = @ + 1, !.mu = i,
                                 !.rb[i] = [step |-> "lock", f |-> "udp6"]]
    /\ UNCHANGED <<conn, xSock, xBind, xClose, upd, rebinder, hist, peerMap,
                   netMap, derpWriteCh, sender, calc, rx, tracker, discoInfo,
                   epCache, xLate>>

\* bindSocket: ruc.mu.Lock()
RaceBindLock(i) ==
    /\ race.rb[i].step = "lock"
    /\ race.ruc[race.rb[i].f].mu = NoHolder
    /\ race' = [race EXCEPT !.ruc[race.rb[i].f].mu = i,
                            !.rb[i].step = "close"]
    /\ UNCHANGED <<conn, xSock, xBind, xClose, upd, rebinder, hist, peerMap,
                   netMap, derpWriteCh, sender, calc, rx, tracker, discoInfo,
                   epCache, xLate>>

\* bindSocket: ruc.closeLocked(), before the new socket is opened
RaceBindClose(i) ==
    /\ race.rb[i].step = "close"
    /\ race' = [race EXCEPT !.ruc[race.rb[i].f].open = FALSE,
                            !.rb[i].step = "set"]
    /\ UNCHANGED <<conn, xSock, xBind, xClose, upd, rebinder, hist, peerMap,
                   netMap, derpWriteCh, sender, calc, rx, tracker, discoInfo,
                   epCache, xLate>>

\* bindSocket: setConnLocked with the socket that was bound, or with a
\* blockForeverConn when no port could be bound (ok is FALSE), and
\* ruc.mu.Unlock(). rebind goes on with the IPv4 socket after the IPv6 one;
\* after the IPv4 one Rebind releases Conn.mu and returns if binding failed
RaceBindSet(i, ok) ==
    /\ race.rb[i].step = "set"
    /\ LET f == race.rb[i].f
           r1 == [race EXCEPT !.ruc[f] = [mu |-> NoHolder, cur |-> @.cur + 1,
                                          open |-> TRUE]]
       IN  race' = IF f = "udp6"
                   THEN [r1 EXCEPT !.rb[i] = [step |-> "lock", f |-> "udp4"]]
                   ELSE [r1 EXCEPT !.mu = NoHolder,
                                   !.rb[i] = IF ok
                                             THEN [step |-> "reset",
                                                   f |-> "udp4"]
                                             ELSE IdleRebinder]
    /\ UNCHANGED <<conn, xSock, xBind, xClose, upd, rebinder, hist, peerMap,
                   netMap, derpWriteCh, sender, calc, rx, tracker, discoInfo,
                   epCache, xLate>>

\* Rebind: resetEndpointStates, under Conn.mu, and return
RaceReset(i) ==
    /\ race.rb[i].step = "reset"
    /\ race.mu = NoHolder
    /\ race' = [race EXCEPT !.rb[i] = IdleRebinder]
    /\ resetEndpointStates
    /\ UNCHANGED <<conn, xSock, xBind, xClose, upd, rebinder, hist, netMap,
                   derpWriteCh, sender, calc, rx, tracker, discoInfo,
                   epCache, xLate>>

\* the receive function of the family f is called: ReadBatch loads the
\* current socket and reads from it
RaceRead(f) ==
    /\ race.rd[f].pc = "idle"
    /\ race' = [race EXCEPT !.rd[f].pc = "read",
                            !.rd[f].sock = race.ruc[f].cur]
    /\ UNCHANGED <<conn, xSock, xBind, xClose, upd, rebinder, hist, peerMap,
                   netMap, derpWriteCh, sender, calc, rx, tracker, discoInfo,
                   epCache, xLate>>

\* a datagram is read and the receive function returns it
RaceReadDatagram(f) ==
    /\ race.rd[f].pc = "read"
    /\ ~socketClosed(race.ruc[f], race.rd[f].sock)
    /\ race' = [race EXCEPT !.rd[f].pc = "idle"]
    /\ UNCHANGED <<conn, xSock, xBind, xClose, upd, rebinder, hist, peerMap,
                   netMap, derpWriteCh, sender, calc, rx, tracker, discoInfo,
                   epCache, xLate>>

\* the read fails because the socket was closed
RaceReadFails(f) ==
    /\ race.rd[f].pc = "read"
    /\ socketClosed(race.ruc[f], race.rd[f].sock)
    /\ race' = [race EXCEPT !.rd[f].pc = "failed"]
    /\ UNCHANGED <<conn, xSock, xBind, xClose, upd, rebinder, hist, peerMap,
                   netMap, derpWriteCh, sender, calc, rx, tracker, discoInfo,
                   epCache, xLate>>

\* currentConn as it would be if it read the current socket without ruc.mu
currentConnUnlocked(ruc) == TRUE

\* currentConn takes ruc.mu to read the current socket
currentConn(ruc) == ruc.mu = NoHolder

\* ReadBatch after a failed read: when the socket read from is no longer the
\* current one the read is tried again on the current one, otherwise the
\* error is returned to the caller of the receive function
RaceReadCheck(f) ==
    /\ race.rd[f].pc = "failed"
    /\ currentConn(race.ruc[f])
    /\ race' = IF race.rd[f].sock # race.ruc[f].cur
               THEN [race EXCEPT !.rd[f] = [pc |-> "read",
                                            sock |-> race.ruc[f].cur,
                                            retried |-> TRUE]]
               ELSE [race EXCEPT !.rd[f].pc = "returned"]
    /\ UNCHANGED <<conn, xSock, xBind, xClose, upd, rebinder, hist, peerMap,
                   netMap, derpWriteCh, sender, calc, rx, tracker, discoInfo,
                   epCache, xLate>>

\* ------------------------------------------------------------------------
\* bindSocket port by port
\* ------------------------------------------------------------------------
\* the port the system gives to a socket bound to port 0
EphemeralPort == MaxPort + 1

\* port 0 asks for any port
Ports == 0..EphemeralPort

keepCurrentPort == 0
dropCurrentPort == 1

\* RebindingUDPConn.pconn: nil before the first bindSocket, a UDP socket on a
\* port, or a blockForeverConn, whose local address has the port 0
NilPconn == [kind |-> "nil", port |-> 0]
UDPOn(port) == [kind |-> "udp", port |-> port]
BlockForeverPconn == [kind |-> "blockForever", port |-> 0]

\* uniq.ModifySlice: consecutive duplicates are removed
RECURSIVE uniq(_)
uniq(ports) ==
    IF Len(ports) <= 1 THEN ports
    ELSE IF ports[1] = ports[2] THEN uniq(Tail(ports))
         ELSE <<ports[1]>> \o uniq(Tail(ports))

\* bindSocket: the preferred port, the current port, then 0
candidatePorts(port, ruc, curPortFate) ==
    uniq((IF port # 0 THEN <<port>> ELSE <<>>)
         \o (IF ruc.kind # "nil" /\ curPortFate = keepCurrentPort
             THEN <<ruc.port>> ELSE <<>>)
         \o <<0>>)

\* bindSocket: the loop over the candidate ports; free holds the ports
\* listenPacket can bind. The result has the ports tried and whether the
\* last of them was bound
RECURSIVE tryPorts(_, _, _)
tryPorts(ports, free, tried) ==
    IF ports = <<>> THEN [tried |-> tried, ok |-> FALSE]
    ELSE IF ports[1] \in free
         THEN [tried |-> Append(tried, ports[1]), ok |-> TRUE]
         ELSE tryPorts(Tail(ports), free, Append(tried, ports[1]))

\* bindSocket(ruc, network, curPortFate) with the preferred port `port`:
\* the new ruc.pconn, the ports tried and whether an error is returned
bindSocketPorts(port, ruc, curPortFate, free) ==
    IF conn.alwaysDERP
    THEN [pconn |-> BlockForeverPconn, tried |-> <<>>, err |-> FALSE]
    ELSE LET r == tryPorts(candidatePorts(port, ruc, curPortFate), free, <<>>)
             last == r.tried[Len(r.tried)]
         IN  IF r.ok
             THEN [pconn |-> UDPOn(IF last = 0 THEN EphemeralPort ELSE last),
                   tried |-> r.tried, err |-> FALSE]
             ELSE [pconn |-> BlockForeverPconn, tried |-> r.tried,
                   err |-> TRUE]

\* before NewConn has bound the sockets
newBinder ==
    [state |-> "new", port |-> 0, fate |-> keepCurrentPort,
     prior |-> [f \in Families |-> NilPconn],
     free |-> [f \in Families |-> {}],
     pconn |-> [f \in Families |-> NilPconn],
     tried |-> [f \in Families |-> <<>>],
     err |-> [f \in Families |-> FALSE]]

\* rebind(curPortFate) on the binder b: bindSocket for IPv6, then for IPv4.
\* prior and free keep what the two calls started from
rebindPorts(b, curPortFate, free) ==
    LET r == [f \in Families |->
                 bindSocketPorts(b.port, b.pconn[f], curPortFate, free[f])]
    IN  [b EXCEPT !.fate = curPortFate, !.prior = b.pconn, !.free = free,
                  !.pconn = [f \in Families |-> r[f].pconn],
                  !.tried = [f \in Families |-> r[f].tried],
                  !.err = [f \in Families |-> r[f].err]]

\* after a NewConn with opts.Port = 0 where every port could be bound
boundBinder ==
    [rebindPorts(newBinder, keepCurrentPort, [f \in Families |-> Ports])
        EXCEPT !.state = "running"]

\* the ports that can be bound when rebind is called: any set of IPv4 ports,
\* and every IPv6 port or none
FreePorts ==
    {[f \in Families |-> IF f = "udp4" THEN p4 ELSE p6] :
        p4 \in SUBSET Ports, p6 \in {{}, Ports}}

\* NewConn(opts): c.port is opts.Port, then rebind(keepCurrentPort); when
\* rebind returns an error NewConn returns it and no Conn
NewConnBind(port, free) ==
    /\ binder.state = "new"
    /\ LET b == rebindPorts([binder EXCEPT !.port = port], keepCurrentPort,
                            free)
       IN  binder' = [b EXCEPT !.state = IF b.err["udp4"] THEN "aborted"
                                         ELSE "running"]
    /\ UNCHANGED <<conn, xSock, xBind, xClose, upd, rebinder, hist, peerMap,
                   netMap, derpWriteCh, sender, xEarly, xLateButBinder>>

\* Rebind on the running Conn: rebind(keepCurrentPort)
RebindPorts(free) ==
    /\ binder.state = "running"
    /\ ~conn.closed
    /\ binder' = rebindPorts(binder, keepCurrentPort, free)
    /\ UNCHANGED <<conn, xSock, xBind, xClose, upd, rebinder, hist, peerMap,
                   netMap, derpWriteCh, sender, xEarly, xLateButBinder>>

\* SetPreferredPort(port) on the running Conn: nothing when port is the
\* preferred port already, else rebind(dropCurrentPort)
SetPreferredPortPorts(port, free) ==
    /\ binder.state = "running"
    /\ binder.port # port
    /\ binder' = rebindPorts([binder EXCEPT !.port = port], dropCurrentPort,
                             free)
    /\ UNCHANGED <<conn, xSock, xBind, xClose, upd, rebinder, hist, peerMap,
                   netMap, derpWriteCh, sender, xEarly, xLateButBinder>>

\* ------------------------------------------------------------------------
\* Rebind and SetPreferredPort
\* ------------------------------------------------------------------------
\* Rebind, up to the release of Conn.mu: returns at once on a closed Conn,
\* else re-binds both sockets; on success resetEndpointStates follows
RebindLocked(ok4, ok6, next, skip) ==
    IF conn.closed THEN /\ UNCHANGED <<pconn, recv>>
                        /\ skip
    ELSE /\ rebind(ok4, ok6)
         /\ IF rebindErr(ok4) THEN skip ELSE next

\* Rebind() called from outside (link change)
Rebind ==
    /\ rebinder = "idle"
    /\ \E ok4, ok6 \in BOOLEAN :
          RebindLocked(ok4, ok6, rebinder' = "reset", rebinder' = "idle")
    /\ UNCHANGED <<conn, xBind, xClose, upd, hist, xOther>>

\* SetPreferredPort(port): rebind(dropCurrentPort) without Conn.mu
SetPreferredPort(port) ==
    /\ rebinder = "idle"
    /\ conn.port # port
    /\ conn' = [conn EXCEPT !.port = port]
    /\ \E ok4, ok6 \in BOOLEAN :
          /\ rebind(ok4, ok6)
          /\ rebinder' = IF rebindErr(ok4) THEN "idle" ELSE "reset"
    /\ UNCHANGED <<xBind, xClose, upd, hist, xOther>>

\* the resetEndpointStates call that ends Rebind and SetPreferredPort
RebindReset ==
    /\ rebinder = "reset"
    /\ rebinder' = "idle"
    /\ resetEndpointStates
    /\ UNCHANGED <<conn, xSock, xBind, xClose, upd, hist, netMap, derpWriteCh,
                   sender, xAux>>

\* ------------------------------------------------------------------------
\* updateEndpoints
\* ------------------------------------------------------------------------
EndpointLists == {<<>>, <<EpStun>>, <<EpLocal>>}

anySTUN(eps) == \E i \in 1..Len(eps) : eps[i].Type = EndpointSTUN

\* endpointSetsEqual(x, y)
endpointSetsEqual(x, y) ==
    {x[i] : i \in 1..Len(x)} = {y[i] : i \in 1..Len(y)}

\* noV4Send && shouldRebindOnFailedNetcheckV4Send()
UpdStart(g) ==
    /\ upd[g].pc = "start"
    /\ upd' = [upd EXCEPT ![g].pc =
                 IF conn.noV4Send /\ shouldRebindOnFailedNetcheckV4Send(conn)
                 THEN "checkClosed" ELSE "determine"]
    /\ UNCHANGED <<conn, xSock, xBind, xClose, rebinder, hist, xOther>>

\* closed := c.closed, read under Conn.mu
UpdCheckClosed(g) ==
    /\ upd[g].pc = "checkClosed"
    /\ upd' = [upd EXCEPT ![g].pc = IF conn.closed THEN "determine"
                                    ELSE "rebind"]
    /\ UNCHANGED <<conn, xSock, xBind, xClose, rebinder, hist, xOther>>

\* c.Rebind(); ok4 and ok6 are whether a port can be bound
UpdRebind(g, ok4, ok6) ==
    /\ upd[g].pc = "rebind"
    /\ RebindLocked(ok4, ok6, upd' = [upd EXCEPT ![g].pc = "reset"],
                    upd' = [upd EXCEPT ![g].pc = "determine"])
    /\ UNCHANGED <<conn, xBind, xClose, rebinder, hist, xOther>>

UpdReset(g) ==
    /\ upd[g].pc = "reset"
    /\ upd' = [upd EXCEPT ![g].pc = "determine"]
    /\ resetEndpointStates
    /\ UNCHANGED <<conn, xSock, xBind, xClose, rebinder, hist, netMap,
                   derpWriteCh, sender, xAux>>

\* updateNetInfo, when a report is made: records whether IPv4 can send and
\* sets the home DERP (setNearestDERP, which connects to it given a key)
updateNetInfo(c, canSend4) ==
    IF ~c.derpMap \/ ~c.networkUp THEN c
    ELSE LET c1 == [c EXCEPT !.noV4Send = ~canSend4, !.myDerp = TRUE]
         IN  IF ~c.myDerp /\ c.privateKey # ZeroKey
             THEN derpWriteChanOfAddr(c1) ELSE c1

\* determineEndpoints(ctx) returns an error: updateEndpoints returns
UpdDetermineFails(g) ==
    /\ upd[g].pc = "determine"
    /\ upd' = [upd EXCEPT ![g].pc = "done"]
    /\ UNCHANGED <<conn, xSock, xBind, xClose, rebinder, hist, xOther>>

\* determineEndpoints(ctx) returns the endpoints eps, after updateNetInfo
UpdDetermine(g, canSend4, eps) ==
    /\ upd[g].pc = "determine"
    /\ conn' = updateNetInfo(conn, canSend4)
    /\ upd' = [upd EXCEPT ![g].pc = "setEndpoints", ![g].eps = eps]
    /\ UNCHANGED <<xSock, xBind, xClose, rebinder, hist, xOther>>

\* setEndpoints as it would be if it ran the onEndpointRefreshed funcs
\* without recording the time
setEndpointsNoTime(c, endpoints, now) ==
    LET eps == IF c.blockEndpoints THEN <<>> ELSE endpoints
    IN  IF ~anySTUN(eps) /\ ~c.derpMap THEN c
        ELSE [c EXCEPT !.refreshedFns = @ \cup c.onEndpointRefreshed,
                       !.onEndpointRefreshed = {},
                       !.lastEndpoints = IF endpointSetsEqual(eps, @) THEN @
                                         ELSE eps]

\* setEndpoints(endpoints) at the time now: unless the update is ignored,
\* lastEndpointsTime is now and every func of onEndpointRefreshed is started
\* in a goroutine of its own (refreshedFns) and deleted; then the endpoints
\* are stored when they changed
setEndpoints(c, endpoints, now) ==
    LET eps == IF c.blockEndpoints THEN <<>> ELSE endpoints
    IN  IF ~anySTUN(eps) /\ ~c.derpMap THEN c
        ELSE [c EXCEPT !.lastEndpointsTime = now,
                       !.refreshedFns = @ \cup c.onEndpointRefreshed,
                       !.onEndpointRefreshed = {},
                       !.lastEndpoints = IF endpointSetsEqual(eps, @) THEN @
                                         ELSE eps]

\* epFunc was not called
NoCalls == [calls |-> 0, last |-> <<>>, prev |-> <<>>]

\* epFunc(endpoints)
epFunc(n, endpoints) ==
    [calls |-> IF n.calls < 2 THEN n.calls + 1 ELSE 2, last |-> endpoints,
     prev |-> n.last]

\* updateEndpoints after determineEndpoints: setEndpoints reports a change
\* when it stored a new list, and then epFunc is called with the endpoints
\* that were determined
UpdSetEndpoints(g) ==
    /\ upd[g].pc = "setEndpoints"
    /\ conn' = setEndpoints(conn, upd[g].eps, callme.now)
    /\ notified' = IF conn'.lastEndpoints # conn.lastEndpoints
                   THEN epFunc(notified, upd[g].eps) ELSE notified
    /\ upd' = [upd EXCEPT ![g].pc = "done", ![g].eps = <<>>]
    /\ UNCHANGED <<xSock, xBind, xClose, rebinder, hist, peerMap, netMap,
                   derpWriteCh, sender, xEarly, xLateButNotified>>

\* the deferred function as it would be if it left a wanted update to the
\* periodic timer
UpdDoneNoRelaunch(g) ==
    /\ upd[g].pc = "done"
    /\ upd' = [upd EXCEPT ![g] = IdleUpdater]
    /\ conn' = [conn EXCEPT !.wantEndpointsUpdate = NoReason,
                            !.endpointsUpdateActive = FALSE,
                            !.periodicReSTUNTimer =
                               IF conn.closed THEN @ ELSE "armed"]
    /\ hist' = [hist EXCEPT !.reqDuring = NoReason, !.queuedReq = NoReason,
                            !.relaunched = NoReason]
    /\ UNCHANGED <<xSock, xBind, xClose, rebinder, xOther>>

\* the deferred function as it would be if it cleared wantEndpointsUpdate
\* only while the Conn is open
updateEndpointsDeferredKeepWant(g, idle, force) ==
    /\ upd' = [upd EXCEPT ![g] =
                 IF ~conn.closed /\ conn.wantEndpointsUpdate # NoReason
                 THEN [pc |-> "start", why |-> conn.wantEndpointsUpdate,
                       eps |-> <<>>]
                 ELSE IdleUpdater]
    /\ hist' = [hist EXCEPT !.reqDuring = NoReason, !.queuedReq = NoReason,
                            !.relaunched = IF conn.closed THEN NoReason
                                           ELSE conn.wantEndpointsUpdate]
    /\ conn' = IF conn.closed
               THEN [conn EXCEPT !.endpointsUpdateActive = FALSE]
               ELSE IF conn.wantEndpointsUpdate # NoReason
               THEN [conn EXCEPT !.wantEndpointsUpdate = NoReason]
               ELSE [conn EXCEPT
                        !.endpointsUpdateActive = FALSE,
                        !.periodicReSTUNTimer =
                           IF shouldDoPeriodicReSTUNLocked(conn, idle, force)
                           THEN "armed" ELSE "nil"]

\* the deferred function of updateEndpoints; idle is whether the Conn has
\* been idle for longer than sessionActiveTimeout, force is
\* ForceBackgroundSTUN
updateEndpointsDeferred(g, idle, force) ==
    LET why == conn.wantEndpointsUpdate
        c1 == [conn EXCEPT !.wantEndpointsUpdate = NoReason]
    IN  IF ~conn.closed /\ why # NoReason
        THEN /\ conn' = c1
             /\ upd' = [upd EXCEPT ![g] = [pc |-> "start", why |-> why,
                                            eps |-> <<>>]]
             /\ hist' = [hist EXCEPT !.reqDuring = NoReason,
                                     !.queuedReq = NoReason,
                                     !.relaunched = why]
        ELSE /\ upd' = [upd EXCEPT ![g] = IdleUpdater]
             /\ hist' = [hist EXCEPT !.reqDuring = NoReason,
                                     !.queuedReq = NoReason,
                                     !.relaunched = NoReason]
             /\ IF conn.closed
                THEN conn' = [c1 EXCEPT !.endpointsUpdateActive = FALSE]
                ELSE conn' = [c1 EXCEPT
                        !.endpointsUpdateActive = FALSE,
                        !.periodicReSTUNTimer =
                           IF shouldDoPeriodicReSTUNLocked(c1, idle, force)
                           THEN "armed" ELSE "nil"]

\* updateEndpoints returns, whatever idleFunc and ForceBackgroundSTUN give
UpdDone(g) ==
    /\ upd[g].pc = "done"
    /\ \E idle, force \in BOOLEAN : updateEndpointsDeferred(g, idle, force)
    /\ UNCHANGED <<xSock, xBind, xClose, rebinder, xOther>>

\* an unknown idle time: Conn.idleFunc is nil
NoIdle == -1

sessionActiveTimeout == 45

\* no delay: no timer is set
NoTimer == [idleFor |-> NoIdle, force |-> FALSE, d |-> 0]

\* tstime.RandomDurationBetween(min, max), where r is the random number
RandomDurationBetween(min, max, r) == min + (r % (max - min))

\* updateEndpoints returns when idleFunc gives idleFor seconds (NoIdle when
\* there is no idleFunc), ForceBackgroundSTUN is force and the random source
\* gives r: the timer is set to a new delay when it is armed, has none when
\* it is stopped, and is left alone otherwise
UpdDoneTimed(g, idleFor, force, r) ==
    /\ upd[g].pc = "done"
    /\ updateEndpointsDeferred(g, idleFor > sessionActiveTimeout, force)
    /\ timer' =
          IF conn.closed \/ conn.wantEndpointsUpdate # NoReason THEN timer
          ELSE [idleFor |-> idleFor, force |-> force,
                d |-> IF conn'.periodicReSTUNTimer = "armed"
                      THEN RandomDurationBetween(20, 26, r) ELSE 0]
    /\ UNCHANGED <<xSock, xBind, xClose, rebinder, peerMap, netMap,
                   derpWriteCh, sender, xEarly, xLateButTimer>>

\* ------------------------------------------------------------------------
\* Conn.Close
\* ------------------------------------------------------------------------
\* Close as it would be without the early return on a closed Conn
CloseBeginNoCheck(cl) ==
    /\ closer[cl] = "idle"
    /\ race.mu = NoHolder
    /\ conn' = [stopPeriodicReSTUNTimerLocked(conn) EXCEPT
                   !.closing = TRUE, !.closed = TRUE]
    /\ race' = closeRucs(race)
    /\ peerMap' = stopAndResetEach(peerMap)
    /\ epCache' = staleCaches(epCache, endpointKeys(peerMap))
    /\ pconn' = closePconn(closePconn(pconn, "udp6"), "udp4")
    /\ IF goroutinesRunningLocked(conn)
       THEN /\ closer' = [closer EXCEPT ![cl] = "waiting"]
            /\ UNCHANGED closeRet
       ELSE /\ closer' = [closer EXCEPT ![cl] = "returned"]
            /\ closeRet' = [closeRet EXCEPT ![cl] = "nil"]
    /\ UNCHANGED <<xBind, recv, upd, rebinder, hist, netMap, derpWriteCh,
                   sender, calc, rx, tracker, discoInfo, xLate>>

\* Close, from taking Conn.mu to its return or to its first muCond.Wait
CloseBegin(cl) ==
    /\ closer[cl] = "idle"
    /\ race.mu = NoHolder
    /\ IF conn.closed
       THEN /\ closer' = [closer EXCEPT ![cl] = "returned"]
            /\ closeRet' = [closeRet EXCEPT ![cl] = "nil"]
            /\ UNCHANGED <<conn, pconn, peerMap, epCache, race>>
       ELSE /\ conn' = [stopPeriodicReSTUNTimerLocked(conn) EXCEPT
                           !.closing = TRUE, !.closed = TRUE]
            /\ race' = closeRucs(race)
            /\ peerMap' = stopAndResetEach(peerMap)
            /\ epCache' = staleCaches(epCache, endpointKeys(peerMap))
            /\ pconn' = closePconn(closePconn(pconn, "udp6"), "udp4")
            /\ IF goroutinesRunningLocked(conn)
               THEN /\ closer' = [closer EXCEPT ![cl] = "waiting"]
                    /\ UNCHANGED closeRet
               ELSE /\ closer' = [closer EXCEPT ![cl] = "returned"]
                    /\ closeRet' = [closeRet EXCEPT ![cl] = "nil"]
    /\ UNCHANGED <<xBind, recv, upd, rebinder, hist, netMap, derpWriteCh,
                   sender, calc, rx, tracker, discoInfo, xLate>>

\* Close wakes from muCond.Wait with no goroutine running, and returns
CloseWait(cl) ==
    /\ closer[cl] = "waiting"
    /\ ~goroutinesRunningLocked(conn)
    /\ closer' = [closer EXCEPT ![cl] = "returned"]
    /\ closeRet' = [closeRet EXCEPT ![cl] = "nil"]
    /\ hist' = [hist EXCEPT !.closeWaited = TRUE]
    /\ UNCHANGED <<conn, xSock, xBind, upd, rebinder, xOther>>

\* ------------------------------------------------------------------------
\* connBind and the receive functions
\* ------------------------------------------------------------------------
\* connBind.Open: wireguard-go starts a goroutine per ReceiveFunc; it calls
\* Open only once the goroutines of the previous Open have ended
BindOpen ==
    /\ bind.mu = "free"
    /\ bind.closed
    /\ \A fn \in RecvFns : recv[fn] \in {"idle", "done"}
    /\ bind' = [bind EXCEPT !.closed = FALSE]
    /\ recv' = [fn \in RecvFns |-> "reading"]
    /\ UNCHANGED <<conn, xClose, pconn, derpRecvCh, upd, rebinder, hist, xOther>>

\* connBind.Close up to the send on derpRecvCh
BindCloseLock ==
    /\ bind.mu = "free"
    /\ ~bind.closed
    /\ bind' = [closed |-> TRUE, mu |-> "Close"]
    /\ pconn' = closePconn(closePconn(pconn, "udp4"), "udp6")
    /\ UNCHANGED <<conn, xClose, recv, derpRecvCh, upd, rebinder, hist, xOther>>

\* connBind.Close: c.derpRecvCh <- derpReadResult{}, then unlock
BindCloseSend ==
    /\ bind.mu = "Close"
    /\ Len(derpRecvCh) < DerpRecvChCap
    /\ derpRecvCh' = Append(derpRecvCh, EmptyReadResult)
    /\ bind' = [bind EXCEPT !.mu = "free"]
    /\ UNCHANGED <<conn, xSock, xClose, upd, rebinder, hist, xOther>>

\* mkReceiveFunc: ReadBatch fails on the closed current socket; return 0, err
UDPReadFails(f) ==
    /\ recv[f] = "reading"
    /\ ~pconn[f].open
    /\ recv' = [recv EXCEPT ![f] = "done"]
    /\ UNCHANGED <<conn, xBind, xClose, pconn, upd, rebinder, hist, xOther>>

\* RebindingUDPConn.ReadBatch: the read failed on a socket that was replaced;
\* read again from the current one
UDPReadRetries(f) ==
    /\ recv[f] = "readingOld"
    /\ recv' = [recv EXCEPT ![f] = "reading"]
    /\ UNCHANGED <<conn, xBind, xClose, pconn, upd, rebinder, hist, xOther>>

\* receiveDERP: a read result arrives on derpRecvCh
ReceiveDERPTake ==
    /\ recv["derp"] = "reading"
    /\ derpRecvCh # <<>>
    /\ derpRecvCh' = Tail(derpRecvCh)
    /\ recv' = [recv EXCEPT !["derp"] = "check"]
    /\ UNCHANGED <<conn, xClose, pconn, bind, upd, rebinder, hist, xOther>>

\* receiveDERP: isClosed() ends the function; otherwise the result is
\* processed and the function reads (or is called) again
ReceiveDERPCheck ==
    /\ recv["derp"] = "check"
    /\ bind.mu = "free"
    /\ recv' = [recv EXCEPT !["derp"] = IF bind.closed THEN "done"
                                        ELSE "reading"]
    /\ UNCHANGED <<conn, xBind, xClose, pconn, upd, rebinder, hist, xOther>>

\* runDerpReader, of which one runs for each active relay connection: a
\* packet from a DERP server is put on derpRecvCh
RunDerpReader ==
    /\ conn.activeDerp
    /\ ~conn.closed
    /\ Len(derpRecvCh) < DerpRecvChCap
    /\ derpRecvCh' = Append(derpRecvCh, DerpPacket)
    /\ UNCHANGED <<conn, xSock, xClose, bind, upd, rebinder, hist, xOther>>

\* ------------------------------------------------------------------------
\* Send, sendDiscoMessage and sendAddr
\* ------------------------------------------------------------------------
\* sendUDP(ipp, b): a write on a closed socket fails; lost is whether the
\* failure is treated as a lost packet (noV4, TreatAsLostUDP)
sendUDP(s, lost) ==
    IF pconn["udp4"].open THEN [s EXCEPT !.pc = "idle", !.sent = TRUE,
                                         !.err = NoError]
    ELSE [s EXCEPT !.pc = "idle", !.sent = FALSE,
                   !.err = IF lost THEN NoError ELSE ErrSocket]

\* sendAddr as it would be if a full queue made it wait for room
sendAddrSelectBlocking(s) ==
    \/ /\ conn.closed
       /\ sender' = [s EXCEPT !.pc = "idle", !.sent = FALSE,
                              !.err = ErrConnClosed]
       /\ UNCHANGED derpWriteCh
    \/ /\ Len(derpWriteCh) < MaxDerpWrites
       /\ derpWriteCh' = Append(derpWriteCh, s.call)
       /\ sender' = [s EXCEPT !.pc = "idle", !.sent = TRUE, !.err = NoError]

\* the select of sendAddr: donec is closed, or the request goes on the write
\* channel, or (neither being ready) the packet is dropped
sendAddrSelect(s) ==
    \/ /\ conn.closed
       /\ sender' = [s EXCEPT !.pc = "idle", !.sent = FALSE,
                              !.err = ErrConnClosed]
       /\ UNCHANGED derpWriteCh
    \/ /\ Len(derpWriteCh) < MaxDerpWrites
       /\ derpWriteCh' = Append(derpWriteCh, s.call)
       /\ sender' = [s EXCEPT !.pc = "idle", !.sent = TRUE, !.err = NoError]
    \/ /\ ~conn.closed
       /\ Len(derpWriteCh) >= MaxDerpWrites
       /\ sender' = [s EXCEPT !.pc = "idle", !.sent = FALSE,
                              !.err = ErrDropDerpPacket]
       /\ UNCHANGED derpWriteCh

\* sendAddr(addr, pubKey, b) up to its return or to its select
sendAddr(s, addr, lost) ==
    IF addr # DerpMagicIPAddr
    THEN /\ sender' = sendUDP(s, lost)
         /\ UNCHANGED conn
    ELSE /\ conn' = derpWriteChanOfAddr(conn)
         /\ sender' = IF wantDerpChan(conn) THEN [s EXCEPT !.pc = "select"]
                      ELSE [s EXCEPT !.pc = "idle", !.sent = FALSE,
                                     !.err = NoError]

\* a new call of kind call; afterClose records that a Close had returned
NewCall(call) ==
    [pc |-> "call", call |-> call, sent |-> FALSE, err |-> NoError,
     afterClose |-> \E cl \in Closers : closer[cl] = "returned"]

\* Send(buffs, ep), where endpoint.send sends to addr with sendAddr
Send(addr, lost) ==
    /\ sender.pc = "idle"
    /\ IF ~conn.networkUp
       THEN /\ sender' = [NewCall("Send") EXCEPT !.pc = "idle",
                                                  !.err = ErrNetworkDown]
            /\ UNCHANGED conn
       ELSE sendAddr(NewCall("Send"), addr, lost)
    /\ UNCHANGED <<xSock, xBind, xClose, upd, rebinder, hist, peerMap,
                   netMap, derpWriteCh, xAux>>

\* sendDiscoMessage(dst, dstKey, dstDisco, m, logLevel)
sendDiscoMessage(dst, lost) ==
    /\ sender.pc = "idle"
    /\ IF conn.closed
       THEN /\ sender' = [NewCall("disco") EXCEPT !.pc = "idle",
                                                   !.err = ErrConnClosed]
            /\ UNCHANGED conn
       ELSE sendAddr(NewCall("disco"), dst, lost)
    /\ UNCHANGED <<xSock, xBind, xClose, upd, rebinder, hist, peerMap,
                   netMap, derpWriteCh, xAux>>

\* the caller reaches the select of sendAddr
SendAddrSelect ==
    /\ sender.pc = "select"
    /\ sendAddrSelect(sender)
    /\ UNCHANGED <<conn, xSock, xBind, xClose, upd, rebinder, hist, peerMap,
                   netMap, xAux>>

\* runDerpWriter takes a request off the write channel and sends it
RunDerpWriter ==
    /\ derpWriteCh # <<>>
    /\ ~conn.closed
    /\ derpWriteCh' = Tail(derpWriteCh)
    /\ UNCHANGED <<conn, xSock, xBind, xClose, upd, rebinder, hist, peerMap,
                   netMap, sender, xAux>>

\* ------------------------------------------------------------------------
\* The peer map
\* ------------------------------------------------------------------------
\* newPeerMap: heap holds the peerInfo objects (with their endpoint) that the
\* indices point to
newPeerMap ==
    [heap |-> [i \in PeerInfos |-> FreeCell],
     byNodeKey |-> [k \in NodeKeys |-> NoPeer],
     byIPPort |-> [a \in Addrs |-> NoPeer],
     nodesOfDisco |-> [d \in DiscoKeys \cup {ZeroKey} |-> {}]]

\* objects that no index points to are garbage
collect(pm) ==
    LET live == {pm.byNodeKey[k] : k \in NodeKeys}
                   \cup {pm.byIPPort[a] : a \in Addrs}
    IN  [pm EXCEPT !.heap = [i \in PeerInfos |->
                               IF i \in live THEN pm.heap[i] ELSE FreeCell]]

\* the disco key of an endpoint, zero when ep.disco is nil
discoKeyOf(ep) == IF ep.disco = <<>> THEN ZeroKey ELSE ep.disco[1]

\* nodeCount
nodeCount(pm) == Cardinality({k \in NodeKeys : pm.byNodeKey[k] # NoPeer})

\* anyEndpointForDiscoKey
anyEndpointForDiscoKey(pm, dk) == pm.nodesOfDisco[dk] # {}

\* endpointForNodeKey: the peerInfo holding the endpoint, or NoPeer
endpointForNodeKey(pm, nk) ==
    IF nk = ZeroKey THEN NoPeer ELSE pm.byNodeKey[nk]

\* setNodeKeyForIPPort
setNodeKeyForIPPort(pm, ipp, nk) ==
    LET old == pm.byIPPort[ipp]
        pm1 == IF old # NoPeer
               THEN [pm EXCEPT !.heap[old].ipPorts = @ \ {ipp},
                               !.byIPPort[ipp] = NoPeer]
               ELSE pm
        pi == pm1.byNodeKey[nk]
    IN  IF pi # NoPeer
        THEN [pm1 EXCEPT !.heap[pi].ipPorts = @ \cup {ipp},
                         !.byIPPort[ipp] = pi]
        ELSE pm1

\* setNodeKeyForIPPort for every address of a set, in some order
RECURSIVE setNodeKeyForIPPorts(_, _, _)
setNodeKeyForIPPorts(pm, ipps, nk) ==
    IF ipps = {} THEN pm
    ELSE LET ipp == CHOOSE a \in ipps : TRUE
         IN  setNodeKeyForIPPorts(setNodeKeyForIPPort(pm, ipp, nk),
                                  ipps \ {ipp}, nk)

\* upsertEndpoint(ep, oldDiscoKey)
upsertEndpoint(pm, ep, oldDiscoKey) ==
    LET free == CHOOSE i \in PeerInfos : pm.heap[i] = FreeCell
        pm1 == IF pm.byNodeKey[ep.publicKey] = NoPeer
               THEN [pm EXCEPT !.heap[free] = [free |-> FALSE, ep |-> ep,
                                               ipPorts |-> {}],
                               !.byNodeKey[ep.publicKey] = free]
               ELSE [pm EXCEPT !.heap[pm.byNodeKey[ep.publicKey]].ep = ep]
        pm2 == IF ep.disco = <<>> \/ oldDiscoKey # discoKeyOf(ep)
               THEN [pm1 EXCEPT !.nodesOfDisco[oldDiscoKey] =
                                    @ \ {ep.publicKey}]
               ELSE pm1
    IN  IF ep.isWireguardOnly
        THEN setNodeKeyForIPPorts(pm2, ep.endpointState, ep.publicKey)
        ELSE IF ep.disco = <<>> THEN pm2
        ELSE [pm2 EXCEPT !.nodesOfDisco[discoKeyOf(ep)] =
                             @ \cup {ep.publicKey}]

\* deleteEndpoint(ep), ep being the endpoint of the peerInfo pi
deleteEndpoint(pm, pi) ==
    LET ep == pm.heap[pi].ep
        pm1 == IF ep.disco # <<>>
               THEN [pm EXCEPT !.nodesOfDisco[discoKeyOf(ep)] =
                                   @ \ {ep.publicKey}]
               ELSE pm
        info == pm.byNodeKey[ep.publicKey]
        pm2 == [pm1 EXCEPT !.byNodeKey[ep.publicKey] = NoPeer]
    IN  IF info = NoPeer THEN pm2
        ELSE [pm2 EXCEPT !.byIPPort =
                [a \in Addrs |-> IF a \in pm.heap[info].ipPorts THEN NoPeer
                                 ELSE pm2.byIPPort[a]]]

\* endpoint.updateFromNode(n): the disco key and the endpoints of the node;
\* a new disco key resets the endpoint; an address no longer in the node's
\* endpoints is kept while a ping was received from it within
\* sessionActiveTimeout; a blocked endpoint takes no endpoints
updateFromNode(ep, n) ==
    [(IF discoKeyOf(ep) # n.DiscoKey THEN resetLocked(ep) ELSE ep)
        EXCEPT !.disco = IF discoKeyOf(ep) # n.DiscoKey THEN <<n.DiscoKey>>
                         ELSE @,
               !.endpointState =
                   IF conn.blockEndpoints THEN @
                   ELSE n.Endpoints \cup {a \in @ : \E t \in TxIDs :
                                                <<a, t>> \in ep.gotPing}]

\* ------------------------------------------------------------------------
\* betterAddr
\* ------------------------------------------------------------------------
\* addresses of each kind: public and private IPv4, public and unique-local
\* IPv6
CandidateAddrs == {"publicV4", "publicV4_2", "privateV4", "publicV6",
                   "privateV6"}
IsValid(addr) == addr # NoAddr
IsPrivate(addr) == addr \in {"privateV4", "privateV6"}
Is6(addr) == addr \in {"publicV6", "privateV6"}

\* the points of an address for being private and for being IPv6
boost(addr) ==
    (IF IsPrivate(addr) THEN 20 ELSE 0) + (IF Is6(addr) THEN 10 ELSE 0)

\* the points for being faster: the percentage by which the latency x is
\* below the larger latency y
fasterPoints(x, y) == 100 - ((x * 100) \div y)

\* betterAddr as it would be if no address were better than another
betterAddrNever(a, b) == FALSE

\* betterAddr as it would be if equal points were enough
betterAddrNoHysteresis(a, b) ==
    IF a.addr = b.addr THEN FALSE
    ELSE IF ~IsValid(b.addr) THEN TRUE
    ELSE IF ~IsValid(a.addr) THEN FALSE
    ELSE LET bFaster == a.latency > b.latency /\ a.latency > 0
             aPoints == (IF ~bFaster /\ b.latency > 0
                         THEN fasterPoints(a.latency, b.latency) ELSE 0)
                        + boost(a.addr)
             bPoints == (IF bFaster
                         THEN fasterPoints(b.latency, a.latency) ELSE 0)
                        + boost(b.addr)
         IN  aPoints >= bPoints

\* betterAddr(a, b): whether a is a better address to use than b
betterAddr(a, b) ==
    IF a.addr = b.addr THEN FALSE
    ELSE IF ~IsValid(b.addr) THEN TRUE
    ELSE IF ~IsValid(a.addr) THEN FALSE
    ELSE LET bFaster == a.latency > b.latency /\ a.latency > 0
             aPoints == (IF ~bFaster /\ b.latency > 0
                         THEN fasterPoints(a.latency, b.latency) ELSE 0)
                        + boost(a.addr)
             bPoints == (IF bFaster
                         THEN fasterPoints(b.latency, a.latency) ELSE 0)
                        + boost(b.addr)
         IN  aPoints > bPoints + 1

\* betterAddr is called on (a, b) and on (b, a)
CallBetterAddr ==
    /\ ~calc.done
    /\ calc' = [calc EXCEPT !.done = TRUE,
                            !.ab = betterAddr(calc.a, calc.b),
                            !.ba = betterAddr(calc.b, calc.a)]
    /\ UNCHANGED <<conn, xSock, xBind, xClose, upd, rebinder, hist, peerMap,
                   netMap, derpWriteCh, sender, xAuxButCalc>>

\* ------------------------------------------------------------------------
\* SetNetworkMap and disco pings
\* ------------------------------------------------------------------------
\* a node without disco key that is not WireGuard-only
Legacy(n) == n.DiscoKey = ZeroKey /\ ~n.IsWireGuardOnly

\* the endpoint SetNetworkMap creates for a node that has none
newEndpoint(n) ==
    updateFromNode([publicKey |-> n.Key,
                    disco |-> IF n.DiscoKey = ZeroKey THEN <<>>
                              ELSE <<n.DiscoKey>>,
                    isWireguardOnly |-> n.IsWireGuardOnly,
                    endpointState |-> {}, gotPing |-> {},
                    sentPing |-> {}, recentPongs |-> {},
                    bestAddr |-> NoBestAddr, trustBestAddr |-> FALSE], n)

\* the body of the upsert loop as it would be if it passed the zero disco
\* key for an endpoint it already has
upsertNodeZeroOldDisco(pm, n) ==
    LET pi == endpointForNodeKey(pm, n.Key)
    IN  IF pi # NoPeer
        THEN IF Legacy(n) THEN deleteEndpoint(pm, pi)
             ELSE upsertEndpoint(pm, updateFromNode(pm.heap[pi].ep, n),
                                 ZeroKey)
        ELSE IF Legacy(n) THEN pm
        ELSE upsertEndpoint(pm, newEndpoint(n), ZeroKey)

\* the body of the upsert loop of SetNetworkMap, for the node n
upsertNode(pm, n) ==
    LET pi == endpointForNodeKey(pm, n.Key)
    IN  IF pi # NoPeer
        THEN IF Legacy(n) THEN deleteEndpoint(pm, pi)
             ELSE upsertEndpoint(pm, updateFromNode(pm.heap[pi].ep, n),
                                 discoKeyOf(pm.heap[pi].ep))
        ELSE IF Legacy(n) THEN pm
        ELSE upsertEndpoint(pm, newEndpoint(n), ZeroKey)

\* the upsert loop over nm.Peers
RECURSIVE upsertPass(_, _)
upsertPass(pm, peers) ==
    IF peers = <<>> THEN pm
    ELSE upsertPass(collect(upsertNode(pm, Head(peers))), Tail(peers))

\* deleteEndpoint for every endpoint whose key is not in keep
RECURSIVE deleteOthers(_, _, _)
deleteOthers(pm, keys, keep) ==
    IF keys = {} THEN pm
    ELSE LET k == CHOOSE x \in keys : TRUE
             pi == pm.byNodeKey[k]
         IN  deleteOthers(IF pi # NoPeer /\ k \notin keep
                          THEN deleteEndpoint(pm, pi) ELSE pm,
                          keys \ {k}, keep)

\* the deletion pass of SetNetworkMap
deletionPass(pm, peers) ==
    IF nodeCount(pm) # Len(peers)
    THEN deleteOthers(pm, NodeKeys, {peers[i].Key : i \in 1..Len(peers)})
    ELSE pm

\* SetNetworkMap(nm)
SetNetworkMap(nm) ==
    /\ IF conn.closed THEN UNCHANGED <<peerMap, netMap, discoInfo, epCache>>
       ELSE /\ netMap' = nm
            /\ IF ~netMap.isNil /\ netMap.Peers = nm.Peers
               THEN UNCHANGED <<peerMap, discoInfo, epCache>>
               ELSE /\ peerMap' = collect(deletionPass(
                                     upsertPass(peerMap, nm.Peers), nm.Peers))
                    /\ epCache' = staleCaches(epCache,
                                      endpointKeys(peerMap)
                                         \ endpointKeys(peerMap'))
                    /\ discoInfo' = {dk \in discoInfo :
                                       anyEndpointForDiscoKey(peerMap', dk)}
    /\ UNCHANGED <<conn, xSock, xBind, xClose, upd, rebinder, hist,
                   derpWriteCh, sender, xAuxRest, rx, cmm>>

\* the endpoint of the node key nk has the disco key dk
hasDiscoKey(pm, nk, dk) ==
    LET pi == endpointForNodeKey(pm, nk)
    IN  /\ pi # NoPeer
        /\ pm.heap[pi].ep.disco # <<>>
        /\ discoKeyOf(pm.heap[pi].ep) = dk

\* unambiguousNodeKeyOfPingLocked as it would be if it took one of several
\* nodes that share the disco key
unambiguousNodeKeyOfAny(pm, dm, dk, derpNodeSrc) ==
    IF derpNodeSrc # ZeroKey /\ hasDiscoKey(pm, derpNodeSrc, dk)
    THEN derpNodeSrc
    ELSE IF dm.nodeKey # ZeroKey /\ hasDiscoKey(pm, dm.nodeKey, dk)
    THEN dm.nodeKey
    ELSE IF pm.nodesOfDisco[dk] # {}
    THEN CHOOSE nk \in pm.nodesOfDisco[dk] : TRUE
    ELSE ZeroKey

\* unambiguousNodeKeyOfPingLocked: the node key the ping dm sealed with the
\* disco key dk is from, or ZeroKey when that is ambiguous
unambiguousNodeKeyOfPingLocked(pm, dm, dk, derpNodeSrc) ==
    IF derpNodeSrc # ZeroKey /\ hasDiscoKey(pm, derpNodeSrc, dk)
    THEN derpNodeSrc
    ELSE IF dm.nodeKey # ZeroKey /\ hasDiscoKey(pm, dm.nodeKey, dk)
    THEN dm.nodeKey
    ELSE IF Cardinality(pm.nodesOfDisco[dk]) = 1
    THEN CHOOSE nk \in pm.nodesOfDisco[dk] : TRUE
    ELSE ZeroKey

\* endpoint.addCandidateEndpoint(src, txid): records src as an address of
\* the endpoint and txid as the last ping got from it; duplicate is whether
\* txid was the last ping got from src already
addCandidateEndpoint(ep, src, txid) ==
    IF src \in ep.endpointState
    THEN [duplicatePing |-> <<src, txid>> \in ep.gotPing,
          ep |-> [ep EXCEPT !.gotPing =
                     {g \in @ : g[1] # src} \cup {<<src, txid>>}]]
    ELSE [duplicatePing |-> FALSE,
          ep |-> [ep EXCEPT !.endpointState = @ \cup {src},
                            !.gotPing = @ \cup {<<src, txid>>}]]

\* the loop of handlePingLocked over the endpoints with the sender's disco
\* key, in the order keys; r holds the peer map, dup, numNodes and dstKey
RECURSIVE pingEachEndpoint(_, _, _, _)
pingEachEndpoint(r, keys, src, txid) ==
    IF keys = <<>> THEN r
    ELSE LET pi == r.pm.byNodeKey[Head(keys)]
             res == addCandidateEndpoint(r.pm.heap[pi].ep, src, txid)
         IN  IF res.duplicatePing THEN [r EXCEPT !.dup = TRUE]
             ELSE pingEachEndpoint(
                     [pm |-> [r.pm EXCEPT !.heap[pi].ep = res.ep],
                      dup |-> FALSE,
                      numNodes |-> r.numNodes + 1,
                      dstKey |-> IF r.numNodes = 0 /\ r.dstKey = ZeroKey
                                 THEN Head(keys) ELSE r.dstKey],
                     Tail(keys), src, txid)

\* the Pong as it would be if it reported no source address
pongNoSrc(dm, src, dstKey, dk) ==
    [TxID |-> dm.txid, Src |-> NoAddr, ipDst |-> src, dstKey |-> dstKey,
     discoDest |-> dk]

\* the Pong of handlePingLocked and where sendDiscoMessage sends it: to
\* ipDst, for the node dstKey when ipDst is the relay, sealed for discoDest
pongFor(dm, src, dstKey, dk) ==
    [TxID |-> dm.txid, Src |-> src, ipDst |-> src, dstKey |-> dstKey,
     discoDest |-> dk]

\* likelyHeartBeat of handlePingLocked: the ping is from the address of the
\* sender's last ping, less than 5 seconds after it; since is
\* time.Since(di.lastPingTime) in seconds
likelyHeartBeat(src, lastFrom, since) == src = lastFrom /\ since < 5

\* whether handlePingLocked answers with a Pong, as it would be if a
\* duplicate ping were answered again
sendsPongAlways(dup, numNodes) == numNodes > 0 \/ dup

\* whether handlePingLocked answers with a Pong
sendsPong(dup, numNodes) == ~dup /\ numNodes > 0

\* handlePingLocked(dm, src, di, derpNodeSrc); keys is the order in which
\* forEachEndpointWithDiscoKey visits the endpoints. Gives the peer map and
\* whether a Pong is sent
handlePingLocked(pm, dm, src, dk, derpNodeSrc, keys) ==
    LET isDerp == src = DerpMagicIPAddr
        nk == unambiguousNodeKeyOfPingLocked(pm, dm, dk, derpNodeSrc)
        pm1 == IF nk # ZeroKey /\ ~isDerp
               THEN setNodeKeyForIPPort(pm, src, nk) ELSE pm
        r0 == [pm |-> pm1, dup |-> FALSE, numNodes |-> 0,
               dstKey |-> derpNodeSrc]
        r == IF isDerp
             THEN IF endpointForNodeKey(pm1, derpNodeSrc) # NoPeer
                  THEN pingEachEndpoint(r0, <<derpNodeSrc>>, src, dm.txid)
                  ELSE r0
             ELSE pingEachEndpoint(r0, keys, src, dm.txid)
    IN  [pm |-> r.pm, pong |-> sendsPong(r.dup, r.numNodes), dup |-> r.dup,
         msg |-> pongFor(dm, src,
                         IF ~isDerp /\ r.numNodes > 1 THEN ZeroKey
                         ELSE r.dstKey, dk)]

\* the orders in which a set of keys can be visited
RECURSIVE Orders(_)
Orders(S) ==
    IF S = {} THEN {<<>>}
    ELSE UNION {{<<k>> \o o : o \in Orders(S \ {k})} : k \in S}

\* endpoint.startDiscoPingLocked(ep, txid) for the endpoint of the node nk:
\* the ping sent to the address ep is kept in sentPing under its txid
startDiscoPing(nk, ep, txid) ==
    /\ ~conn.closed /\ conn.privateKey # ZeroKey
    /\ peerMap.byNodeKey[nk] # NoPeer
    /\ LET pi == peerMap.byNodeKey[nk]
       IN  /\ peerMap.heap[pi].ep.disco # <<>>
           /\ ep \in peerMap.heap[pi].ep.endpointState
           /\ peerMap' = [peerMap EXCEPT !.heap[pi].ep.sentPing =
                             {sp \in @ : sp[1] # txid} \cup {<<txid, ep>>}]
    /\ UNCHANGED <<conn, xSock, xBind, xClose, upd, rebinder, hist, netMap,
                   derpWriteCh, sender, xAux>>

\* the latencies a Pong can be measured with
PongLatencies == {5, 30}

\* endpoint.handlePongConnLocked(m, di, src) for the endpoint of the
\* peerInfo pi: a Pong for a ping this endpoint sent takes the ping off
\* sentPing; over UDP, for an address the endpoint still has, it maps src
\* to the node, records the reply, and makes the address the best one if
\* betterAddr says so, trusting the best address anew when it is this one
handlePongConnLocked(pm, pi, m, src, latency) ==
    LET ep == pm.heap[pi].ep
        sps == {sp \in ep.sentPing : sp[1] = m.txid}
    IN  IF sps = {} THEN [knownTxID |-> FALSE, pm |-> pm]
        ELSE
          LET sp == CHOOSE x \in sps : TRUE
              to == sp[2]
              ep1 == [ep EXCEPT !.sentPing = @ \ {sp}]
              pm0 == [pm EXCEPT !.heap[pi].ep = ep1]
              thisPong == [addr |-> to, latency |-> latency]
              best == IF betterAddr(thisPong, ep1.bestAddr) THEN thisPong
                      ELSE ep1.bestAddr
              ep2 == [ep1 EXCEPT
                         !.recentPongs = @ \cup {to},
                         !.bestAddr = IF best.addr = to THEN thisPong
                                      ELSE best,
                         !.trustBestAddr = IF best.addr = to THEN TRUE
                                           ELSE @]
          IN  IF src = DerpMagicIPAddr \/ to \notin ep.endpointState
              THEN [knownTxID |-> TRUE, pm |-> pm0]
              ELSE [knownTxID |-> TRUE,
                    pm |-> [setNodeKeyForIPPort(pm0, src, ep.publicKey)
                               EXCEPT !.heap[pi].ep = ep2]]

\* the loop of handleDiscoMessage over the endpoints with the sender's disco
\* key, until one reports that the Pong's TxID was its own
RECURSIVE pongEachEndpoint(_, _, _, _, _)
pongEachEndpoint(pm, keys, m, src, latency) ==
    IF keys = <<>> THEN pm
    ELSE LET res == handlePongConnLocked(pm, pm.byNodeKey[Head(keys)], m,
                                         src, latency)
         IN  IF res.knownTxID THEN res.pm
             ELSE pongEachEndpoint(pm, Tail(keys), m, src, latency)

\* the CallMeMaybe case as it would be without the test of the endpoint's
\* disco key
callMeMaybeAnyDisco(pm, isDERP, derpNodeSrc, dk, blockEndpoints) ==
    /\ isDERP /\ derpNodeSrc # ZeroKey
    /\ endpointForNodeKey(pm, derpNodeSrc) # NoPeer
    /\ pm.heap[endpointForNodeKey(pm, derpNodeSrc)].ep.disco # <<>>
    /\ ~blockEndpoints

\* the CallMeMaybe case of handleDiscoMessage: whether handleCallMeMaybe is
\* started for the endpoint of derpNodeSrc
callMeMaybeAccepted(pm, isDERP, derpNodeSrc, dk, blockEndpoints) ==
    /\ isDERP /\ derpNodeSrc # ZeroKey
    /\ hasDiscoKey(pm, derpNodeSrc, dk)
    /\ ~blockEndpoints

\* handleDiscoMessage as it would be if it handled a payload without
\* opening the box
discoPayloadUnchecked(msg) == msg.kind # "unknown"

\* a sealed box that opens and holds a payload that parses
discoPayload(msg) == msg.opens /\ msg.kind # "unknown"

\* handleDiscoMessage(msg, src, derpNodeSrc, via) for a frame with the disco
\* magic and a sender key: msg.sender is the sender's disco key, msg.opens
\* whether the box opens with the shared key, msg.kind what the payload
\* parses to
handleDiscoMessage(msg, src, derpNodeSrc) ==
    /\ LET ignored == [NoRx EXCEPT !.isDisco = TRUE]
           isDERP == src = DerpMagicIPAddr
       IN  IF \/ conn.closed
              \/ conn.privateKey = ZeroKey
              \/ ~isDERP /\ conn.blockEndpoints
           THEN rx' = ignored /\ UNCHANGED <<peerMap, discoInfo>>
           ELSE IF ~anyEndpointForDiscoKey(peerMap, msg.sender)
           THEN /\ rx' = [ignored EXCEPT !.metric = "badPeer"]
                /\ UNCHANGED <<peerMap, discoInfo>>
           ELSE
             /\ discoInfo' = discoInfo \cup {msg.sender}
             /\ IF ~discoPayload(msg)
                THEN /\ rx' = [ignored EXCEPT
                                  !.metric = IF msg.opens THEN "badParse"
                                             ELSE "badKey"]
                     /\ UNCHANGED peerMap
                ELSE
                  \E keys \in Orders(peerMap.nodesOfDisco[msg.sender]) :
                    CASE msg.kind = "ping" ->
                           LET r == handlePingLocked(peerMap, msg, src,
                                       msg.sender, derpNodeSrc, keys)
                           IN  /\ peerMap' = collect(r.pm)
                               /\ rx' = [ignored EXCEPT
                                            !.act = IF r.pong THEN "pong"
                                                    ELSE "none",
                                            !.dup = r.dup,
                                            !.metric = "ping"]
                      [] msg.kind = "pong" ->
                           \E latency \in PongLatencies :
                              /\ peerMap' = collect(pongEachEndpoint(
                                               peerMap, keys, msg, src,
                                               latency))
                              /\ rx' = [ignored EXCEPT !.metric = "pong"]
                      [] msg.kind = "callMeMaybe" ->
                           /\ UNCHANGED peerMap
                           /\ rx' = IF callMeMaybeAccepted(peerMap, isDERP,
                                          derpNodeSrc, msg.sender,
                                          conn.blockEndpoints)
                                    THEN [ignored EXCEPT
                                             !.act = "callMeMaybe",
                                             !.key = derpNodeSrc,
                                             !.metric = "callMeMaybe"]
                                    ELSE [ignored EXCEPT
                                             !.metric = "callMeMaybe"]
    /\ cmm' = IF rx'.act = "callMeMaybe" THEN cmm \cup {rx'.key} ELSE cmm
    /\ UNCHANGED <<conn, xSock, xBind, xClose, upd, rebinder, hist, netMap,
                   derpWriteCh, sender, xAuxRest, epCache>>

\* the endpoints of a CallMeMaybe (MyNumber)
CallMeMaybeEndpoints == {"a2"}

\* endpoint.handleCallMeMaybe(m), in the goroutine handleDiscoMessage
\* started for the endpoint of the node nk: the endpoints of the message
\* become candidate addresses, unless the endpoint is blocked
handleCallMeMaybe(nk) ==
    /\ nk \in cmm
    /\ cmm' = cmm \ {nk}
    /\ LET pi == peerMap.byNodeKey[nk]
       IN  peerMap' = IF pi = NoPeer \/ conn.blockEndpoints THEN peerMap
                      ELSE [peerMap EXCEPT !.heap[pi].ep.endpointState =
                                              @ \cup CallMeMaybeEndpoints]
    /\ UNCHANGED <<conn, xSock, xBind, xClose, upd, rebinder, hist, netMap,
                   derpWriteCh, sender, xEarly, xLateButCmm>>

\* whether the cache of the receive function f answers for ipp
cacheHit(cache, ipp) == cache.set /\ cache.ipp = ipp /\ cache.current

\* receiveIP as it would be if it used the cached endpoint whatever its
\* generation
receiveIPAnyGen(pm, cache, ipp, havePrivateKey) ==
    IF ~havePrivateKey THEN [ok |-> FALSE, cache |-> cache]
    ELSE IF cache.set /\ cache.ipp = ipp
    THEN [ok |-> TRUE, de |-> cache.de, cache |-> cache]
    ELSE IF pm.byIPPort[ipp] = NoPeer THEN [ok |-> FALSE, cache |-> cache]
    ELSE LET de == pm.heap[pm.byIPPort[ipp]].ep.publicKey
         IN  [ok |-> TRUE, de |-> de,
              cache |-> [set |-> TRUE, ipp |-> ipp, de |-> de,
                         current |-> TRUE]]

\* receiveIP as it would be without the test of havePrivateKey
receiveIPWithoutKey(pm, cache, ipp, havePrivateKey) ==
    IF cacheHit(cache, ipp)
    THEN [ok |-> TRUE, de |-> cache.de, cache |-> cache]
    ELSE IF pm.byIPPort[ipp] = NoPeer THEN [ok |-> FALSE, cache |-> cache]
    ELSE LET de == pm.heap[pm.byIPPort[ipp]].ep.publicKey
         IN  [ok |-> TRUE, de |-> de,
              cache |-> [set |-> TRUE, ipp |-> ipp, de |-> de,
                         current |-> TRUE]]

\* receiveIP(b, ipp, cache) for a packet that is neither STUN nor disco:
\* whether it is reported, for which endpoint, and the cache afterwards
receiveIP(pm, cache, ipp, havePrivateKey) ==
    IF ~havePrivateKey THEN [ok |-> FALSE, cache |-> cache]
    ELSE IF cacheHit(cache, ipp)
    THEN [ok |-> TRUE, de |-> cache.de, cache |-> cache]
    ELSE IF pm.byIPPort[ipp] = NoPeer THEN [ok |-> FALSE, cache |-> cache]
    ELSE LET de == pm.heap[pm.byIPPort[ipp]].ep.publicKey
         IN  [ok |-> TRUE, de |-> de,
              cache |-> [set |-> TRUE, ipp |-> ipp, de |-> de,
                         current |-> TRUE]]

\* the function mkReceiveFunc makes, for a batch of one datagram d read from
\* the socket of the family f: a datagram that receiveIP does not report
\* gets size 0 and the function reads on
ReceiveUDP(f, d) ==
    /\ recv[f] = "reading"
    /\ pconn[f] = UDPConn
    /\ IF d.kind = "disco"
       THEN handleDiscoMessage(d.frame, d.src, ZeroKey)
       ELSE /\ IF d.kind = "stun"
               THEN rx' = NoRx /\ UNCHANGED epCache
               ELSE LET r == receiveIP(peerMap, epCache[f], d.src,
                                       conn.privateKey # ZeroKey)
                    IN  /\ epCache' = [epCache EXCEPT ![f] = r.cache]
                        /\ rx' = IF r.ok
                                 THEN [NoRx EXCEPT !.reported = TRUE,
                                                   !.key = r.de]
                                 ELSE NoRx
            /\ UNCHANGED <<conn, xSock, xBind, xClose, upd, rebinder, hist,
                           peerMap, netMap, derpWriteCh, sender, xAuxRest,
                           discoInfo, cmm>>

\* ------------------------------------------------------------------------
\* endpointTracker
\* ------------------------------------------------------------------------
\* endpointTrackerLifetime, in the time unit of the model
endpointTrackerLifetime == 2

\* no entry in endpointTracker.cache
NoEntry == [found |-> FALSE]

\* the zero endpointTracker: cache is the map, now the time of the last call
\* of update, eps and ret its input and its result, observed the time each
\* address was last in the input
newTracker ==
    [cache |-> [a \in Addrs |-> NoEntry], called |-> FALSE, now |-> 0,
     eps |-> <<>>, ret |-> <<>>, observed |-> [a \in Addrs |-> NoTime]]

\* the addresses of a slice of endpoints
addrsOf(eps) == {eps[i].Addr : i \in 1..Len(eps)}

\* now.After(until), made true one time unit early
afterOrAt(now, until) == now >= until

\* now.After(until)
After(now, until) == now > until

\* addLocked that does not touch an entry already there
addLockedNoExtend(cache, ep, until) ==
    IF cache[ep.Addr].found THEN cache
    ELSE [cache EXCEPT ![ep.Addr] = [found |-> TRUE, endpoint |-> ep,
                                     until |-> until]]

\* addLocked(now, ep, until)
addLocked(cache, ep, until) ==
    IF cache[ep.Addr].found
    THEN [cache EXCEPT ![ep.Addr].until = until]
    ELSE [cache EXCEPT ![ep.Addr] = [found |-> TRUE, endpoint |-> ep,
                                     until |-> until]]

\* the loop of update over eps calling addLocked
RECURSIVE addAllLocked(_, _, _)
addAllLocked(cache, eps, until) ==
    IF eps = <<>> THEN cache
    ELSE addAllLocked(addLocked(cache, Head(eps), until), Tail(eps), until)

\* removeExpiredLocked(now)
removeExpiredLocked(cache, now) ==
    [a \in Addrs |-> IF cache[a].found /\ After(now, cache[a].until)
                     THEN NoEntry ELSE cache[a]]

\* the cached addresses update appends to its input
cachedToAdd(cache, now, eps) ==
    {a \in Addrs : /\ cache[a].found
                   /\ a \notin addrsOf(eps)
                   /\ ~After(now, cache[a].until)}

\* the endpoints of the cache for a sequence of addresses
cachedEndpoints(cache, order) ==
    [i \in 1..Len(order) |-> cache[order[i]].endpoint]

\* the tracker after update(now, eps) appended the cached endpoints in the
\* order given
endpointTrackerUpdate(et, now, eps, order) ==
    [cache |-> removeExpiredLocked(
                  addAllLocked(et.cache, eps, now + endpointTrackerLifetime),
                  now),
     called |-> TRUE,
     now |-> now,
     eps |-> eps,
     ret |-> eps \o cachedEndpoints(et.cache, order),
     observed |-> [a \in Addrs |-> IF a \in addrsOf(eps) THEN now
                                   ELSE et.observed[a]]]

\* endpointTracker.update(now, eps); the cache is a Go map, so the order of
\* the appended endpoints is any
TrackerUpdate(now, eps) ==
    /\ now >= tracker.now /\ now <= MaxTime
    /\ \E order \in Orders(cachedToAdd(tracker.cache, now, eps)) :
          tracker' = endpointTrackerUpdate(tracker, now, eps, order)
    /\ UNCHANGED <<conn, xSock, xBind, xClose, upd, rebinder, hist, peerMap,
                   netMap, derpWriteCh, sender, xAuxButTracker>>

\* ------------------------------------------------------------------------
\* Two managers
\* ------------------------------------------------------------------------
\* the latency of a pong between the two managers, which are on one host
LoopbackLatency == CHOOSE l \in PongLatencies : \A k \in PongLatencies : l <= k

\* the managers; each has its number as node key and as disco key
Managers == {1, 2}
Other(m) == 3 - m
AddrOf(m) == IF m = 1 THEN "a1" ELSE "a2"

\* two new managers: pm is the peer map, sent whether a packet for the peer
\* was sent, tx the TxID of the next ping; net holds the disco messages sent
\* by UDP and not yet received
newDuo ==
    [mgr |-> [m \in Managers |-> [pm |-> newPeerMap, sent |-> FALSE,
                                  tx |-> 1]],
     net |-> {}]

\* the peers of the network map of the manager m: the other manager, with
\* its disco key and its address
DuoPeers(m) ==
    <<[Key |-> Other(m), DiscoKey |-> Other(m), IsWireGuardOnly |-> FALSE,
       Endpoints |-> {AddrOf(Other(m))}]>>

\* SetNetworkMap of the manager m, with the other manager as its peer
DuoSetNetworkMap(m) ==
    /\ endpointForNodeKey(duo.mgr[m].pm, Other(m)) = NoPeer
    /\ duo' = [duo EXCEPT !.mgr[m].pm =
                  collect(deletionPass(upsertPass(@, DuoPeers(m)),
                                       DuoPeers(m)))]
    /\ UNCHANGED <<conn, xSock, xBind, xClose, upd, rebinder, hist, peerMap,
                   netMap, derpWriteCh, sender, xEarly, xLateButDuo>>

\* the disco message of the kind given that the manager m sends by UDP
DuoMessage(m, kind, txid) ==
    [to |-> Other(m), src |-> AddrOf(m),
     dm |-> [kind |-> kind, sender |-> m, opens |-> TRUE, nodeKey |-> m,
             txid |-> txid]]

\* the pings that go with a packet: one to every candidate address of the
\* endpoint ep, kept in sentPing under the TxID
sendPings(ep, txid) ==
    [ep EXCEPT !.sentPing =
        {sp \in @ : sp[1] # txid}
           \cup {<<txid, a>> : a \in ep.endpointState \ {DerpMagicIPAddr}}]

\* the manager m sends a packet to its peer: by the best address when it is
\* trusted, else by the relay, and then it pings the candidate addresses
DuoSend(m) ==
    LET pm == duo.mgr[m].pm
        pi == endpointForNodeKey(pm, Other(m))
    IN  /\ pi # NoPeer
        /\ LET ep == pm.heap[pi].ep
               direct == ep.bestAddr # NoBestAddr /\ ep.trustBestAddr
           IN  duo' = IF direct THEN [duo EXCEPT !.mgr[m].sent = TRUE]
                      ELSE [duo EXCEPT
                              !.mgr[m].sent = TRUE,
                              !.mgr[m].tx = IF @ = 1 THEN 2 ELSE 1,
                              !.mgr[m].pm.heap[pi].ep =
                                  sendPings(@, duo.mgr[m].tx),
                              !.net = IF ep.endpointState = {} THEN @
                                      ELSE @ \cup {DuoMessage(m, "ping",
                                                       duo.mgr[m].tx)}]
        /\ UNCHANGED <<conn, xSock, xBind, xClose, upd, rebinder, hist,
                       peerMap, netMap, derpWriteCh, sender, xEarly,
                       xLateButDuo>>

\* the manager msg.to receives the disco message msg by UDP and handles it
\* as handleDiscoMessage does: a ping is answered with a pong, a pong makes
\* the address it came from the best one if betterAddr says so
DuoReceive(msg) ==
    /\ msg \in duo.net
    /\ LET m == msg.to
           pm == duo.mgr[m].pm
           dk == msg.dm.sender
       IN  IF ~anyEndpointForDiscoKey(pm, dk)
           THEN duo' = [duo EXCEPT !.net = @ \ {msg}]
           ELSE \E keys \in Orders(pm.nodesOfDisco[dk]) :
                  IF msg.dm.kind = "ping"
                  THEN \E r \in {handlePingLocked(pm, msg.dm, msg.src, dk,
                                                  ZeroKey, keys)} :
                       \E pm1 \in {r.pm} :
                          duo' = [duo EXCEPT
                                     !.mgr[m].pm = collect(pm1),
                                     !.net = (@ \ {msg}) \cup
                                        IF r.pong
                                        THEN {DuoMessage(m, "pong",
                                                         msg.dm.txid)}
                                        ELSE {}]
                  ELSE \E latency \in {LoopbackLatency} :
                       \E pm1 \in {pongEachEndpoint(pm, keys, msg.dm,
                                                    msg.src, latency)} :
                          duo' = [duo EXCEPT !.mgr[m].pm = collect(pm1),
                                             !.net = @ \ {msg}]
    /\ UNCHANGED <<conn, xSock, xBind, xClose, upd, rebinder, hist, peerMap,
                   netMap, derpWriteCh, sender, xEarly, xLateButDuo>>

\* ------------------------------------------------------------------------
\* The netstack link Endpoint and its queue
\* ------------------------------------------------------------------------
\* the goroutines that call WritePackets
Writers == {1, 2}

ErrClosedForSend == "ErrClosedForSend"

\* a writer that is in no call: pkts are the packets a call has yet to
\* write, n the number it wrote, ret what the last call returned, calls the
\* number of calls; full is whether the call found the queue full, atClose
\* whether it was blocked on the full queue when Close began, and nAtClose
\* the number it had written then; late is whether the call began after
\* Close had returned, and ref what the call has added to the reference
\* counts of its packets
IdleWriter ==
    [pc |-> "idle", pkts |-> <<>>, n |-> 0, ret |-> <<>>, calls |-> 0,
     full |-> FALSE, atClose |-> FALSE, nAtClose |-> 0, late |-> FALSE,
     ref |-> 0]

\* NewEndpoint(QueueSize, mtu, linkAddr): c is the channel q.c with cOpen
\* whether it is open, closed is q.closed, closedCh whether q.closedCh is
\* closed, readers the writers that hold q.mu for reading, locker the state
\* of the Lock of Close, closer the position of Close; reads are the packets
\* read and done the packets written, in the order of the writes, next the
\* next packet
NewEndpoint ==
    [c |-> <<>>, cOpen |-> TRUE, closed |-> FALSE, closedCh |-> FALSE,
     readers |-> {}, locker |-> "none", closer |-> "idle",
     w |-> [i \in Writers |-> IdleWriter],
     reads |-> <<>>, done |-> <<>>, next |-> 1]

\* case q.c <- pkt of the select of queue.Write, as it would be if a full
\* queue dropped the packet
selectSendDropping(c, pkt) ==
    [ready |-> TRUE, c |-> IF Len(c) < QueueSize THEN Append(c, pkt) ELSE c]

\* case q.c <- pkt of the select of queue.Write: ready when the channel has
\* room
selectSend(c, pkt) ==
    [ready |-> Len(c) < QueueSize, c |-> Append(c, pkt)]

\* case <-q.closedCh as it would be if Close left closedCh open
selectClosedNever(q) == FALSE

\* case <-q.closedCh of the select of queue.Write
selectClosed(q) == q.closedCh

\* WritePackets(pkts) with k new packets begins; a writer calls it once
WritePackets(i, k) ==
    /\ link.w[i].pc = "idle" /\ link.w[i].calls = 0
    /\ link' = [link EXCEPT
                  !.w[i] = [pc |-> "rlock",
                            pkts |-> [j \in 1..k |-> link.next + j - 1],
                            n |-> 0, ret |-> <<>>, calls |-> @.calls + 1,
                            full |-> FALSE, atClose |-> FALSE,
                            nAtClose |-> 0, late |-> link.closer = "done",
                            ref |-> 0],
                  !.next = @ + k]
    /\ UNCHANGED <<conn, xSock, xBind, xClose, upd, rebinder, hist, peerMap,
                   netMap, derpWriteCh, sender, xEarly, xLateButLink>>

\* the call of the writer i returns n and err
writeReturns(q, i, n, err) ==
    [q EXCEPT !.w[i].pc = "idle", !.w[i].pkts = <<>>, !.w[i].n = n,
              !.w[i].ret = <<n, err>>]

\* queue.Write as it would be without the test of q.closed
queueWriteRLockNoTest(i) ==
    /\ link.w[i].pc = "rlock"
    /\ link.locker = "none"
    /\ link' = [link EXCEPT !.readers = @ \cup {i},
                            !.w[i].pc = "select",
                            !.w[i].ref = @ + 1,
                            !.w[i].full = @ \/ Len(link.c) = QueueSize]
    /\ UNCHANGED <<conn, xSock, xBind, xClose, upd, rebinder, hist, peerMap,
                   netMap, derpWriteCh, sender, xEarly, xLateButLink>>

\* queue.Write: q.mu.RLock(), which waits while Close holds or wants the
\* lock, then the test of q.closed; the select begins with pkt.IncRef(),
\* the value to send
queueWriteRLock(i) ==
    /\ link.w[i].pc = "rlock"
    /\ link.locker = "none"
    /\ link' = IF link.closed
               THEN writeReturns(link, i, link.w[i].n, ErrClosedForSend)
               ELSE [link EXCEPT !.readers = @ \cup {i},
                                 !.w[i].pc = "select",
                                 !.w[i].ref = @ + 1,
                                 !.w[i].full = @ \/ Len(link.c) = QueueSize]
    /\ UNCHANGED <<conn, xSock, xBind, xClose, upd, rebinder, hist, peerMap,
                   netMap, derpWriteCh, sender, xEarly, xLateButLink>>

\* queue.Write: the select, then q.mu.RUnlock(); WritePackets goes on with
\* the next packet or returns
queueWriteSelect(i) ==
    /\ link.w[i].pc = "select"
    /\ LET pkt == Head(link.w[i].pkts)
           snd == selectSend(link.c, pkt)
           q == [link EXCEPT !.readers = @ \ {i}]
       IN  \/ /\ snd.ready
              /\ LET q1 == [q EXCEPT !.c = snd.c,
                                     !.done = Append(@, pkt),
                                     !.w[i].n = @ + 1,
                                     !.w[i].pkts = Tail(@)]
                 IN  link' = IF q1.w[i].pkts = <<>>
                             THEN writeReturns(q1, i, q1.w[i].n, NoError)
                             ELSE [q1 EXCEPT !.w[i].pc = "rlock"]
           \/ /\ selectClosed(link)
              /\ link' = writeReturns([q EXCEPT !.w[i].ref = @ - 1], i,
                                      link.w[i].n, ErrClosedForSend)
    /\ UNCHANGED <<conn, xSock, xBind, xClose, upd, rebinder, hist, peerMap,
                   netMap, derpWriteCh, sender, xEarly, xLateButLink>>

\* Endpoint.Read / ReadContext takes a packet from the channel
queueRead ==
    /\ link.c # <<>>
    /\ link' = [link EXCEPT !.c = Tail(@), !.reads = Append(@, Head(link.c))]
    /\ UNCHANGED <<conn, xSock, xBind, xClose, upd, rebinder, hist, peerMap,
                   netMap, derpWriteCh, sender, xEarly, xLateButLink>>

\* Endpoint.Close, queue.Close: closedChOnce.Do(close(q.closedCh)), then
\* q.mu.Lock() begins
queueCloseBegin ==
    /\ link.closer = "idle"
    /\ link' = [link EXCEPT
                  !.closedCh = TRUE, !.closer = "lock",
                  !.locker = "waiting",
                  !.w = [i \in Writers |->
                           IF link.w[i].pc = "select"
                              /\ Len(link.c) = QueueSize
                           THEN [link.w[i] EXCEPT
                                    !.atClose = TRUE,
                                    !.nAtClose = link.w[i].n]
                           ELSE link.w[i]]]
    /\ UNCHANGED <<conn, xSock, xBind, xClose, upd, rebinder, hist, peerMap,
                   netMap, derpWriteCh, sender, xEarly, xLateButLink>>

\* queue.Close: q.mu.Lock() returns when no writer holds the lock; then
\* close(q.c), q.closed = true and the deferred Unlock
queueCloseLocked ==
    /\ link.closer = "lock"
    /\ link.readers = {}
    /\ link' = [link EXCEPT !.cOpen = FALSE, !.closed = TRUE,
                            !.locker = "none", !.closer = "drain"]
    /\ UNCHANGED <<conn, xSock, xBind, xClose, upd, rebinder, hist, peerMap,
                   netMap, derpWriteCh, sender, xEarly, xLateButLink>>

\* Endpoint.Drain, which ends Close: Read until the channel is empty
Drain ==
    /\ link.closer = "drain"
    /\ link' = [link EXCEPT !.c = <<>>, !.closer = "done"]
    /\ UNCHANGED <<conn, xSock, xBind, xClose, upd, rebinder, hist, peerMap,
                   netMap, derpWriteCh, sender, xEarly, xLateButLink>>

\* ------------------------------------------------------------------------
\* determineEndpoints
\* ------------------------------------------------------------------------
EndpointPortmapped == "portmapped"
EndpointSTUN4LocalPort == "stun4localport"

\* the closure addAddr of determineEndpoints: s holds the map already, as the
\* set of its keys, and the slice eps
addAddr(s, ipp, et) ==
    IF ipp = NoAddr \/ ipp \in s.already THEN s
    ELSE [already |-> s.already \cup {ipp},
          eps |-> Append(s.eps, [Addr |-> ipp, Type |-> et])]

\* the loop of determineEndpoints over the local addresses
RECURSIVE addLocalAddrs(_, _)
addLocalAddrs(s, ips) ==
    IF ips = <<>> THEN s
    ELSE addLocalAddrs(addAddr(s, Head(ips), EndpointLocal), Tail(ips))

\* the endpoints determineEndpoints has before it calls the tracker: the
\* port mapping, the STUN address of IPv4, the same with the local port, the
\* STUN address of IPv6; an address that was not found is NoAddr
gatheredEndpoints(in) ==
    LET s0 == [already |-> {}, eps |-> <<>>]
        s1 == addAddr(s0, in.portmapExt, EndpointPortmapped)
        s2 == addAddr(s1, in.GlobalV4, EndpointSTUN)
        s3 == IF in.GlobalV4 # NoAddr
              THEN addAddr(s2, in.localPort, EndpointSTUN4LocalPort) ELSE s2
    IN  addAddr(s3, in.GlobalV6, EndpointSTUN)

\* determineEndpoints(ctx) at the time now, when it returns no error: ips are
\* the local addresses it offers (those of the interfaces, the loopback
\* ones, or the one the socket is bound to)
determineEndpoints(now, in) ==
    /\ now >= tracker.now /\ now <= MaxTime
    /\ LET s == gatheredEndpoints(in)
       IN  \E order \in Orders(cachedToAdd(tracker.cache, now, s.eps)) :
              /\ tracker' = endpointTrackerUpdate(tracker, now, s.eps, order)
              /\ determined' =
                    addLocalAddrs([already |-> s.already,
                                   eps |-> tracker'.ret], in.ips).eps
    /\ UNCHANGED <<conn, xSock, xBind, xClose, upd, rebinder, hist, peerMap,
                   netMap, derpWriteCh, sender, calc, rx, discoInfo, epCache,
                   race, xLateButDetermined>>

\* ------------------------------------------------------------------------
\* Initial state
\* ------------------------------------------------------------------------
\* newConn / NewConn; always is TS_DEBUG_ALWAYS_USE_DERP
newConn(always) ==
    [closed |-> FALSE, closing |-> FALSE,
     blockEndpoints |-> FALSE,
     endpointsUpdateActive |-> FALSE,
     wantEndpointsUpdate |-> NoReason,
     lastEndpoints |-> <<>>,
     lastEndpointsTime |-> NoTime,
     onEndpointRefreshed |-> {}, refreshedFns |-> {},
     periodicReSTUNTimer |-> "nil", timerGoroutine |-> FALSE,
     spawned |-> NoReason,
     privateKey |-> ZeroKey, everHadKey |-> FALSE,
     networkUp |-> TRUE, derpMap |-> FALSE,
     noV4Send |-> FALSE, myDerp |-> FALSE, peerSet |-> {},
     activeDerp |-> FALSE, derpConnecting |-> FALSE,
     derpStarted |-> FALSE, port |-> 0,
     alwaysDERP |-> always]

\* no betterAddr call was made
NoCalc == [done |-> FALSE]

\* nothing was handled: pong is the Pong sendDiscoMessage was started with,
\* heartbeat whether the ping was classed as a likely heartbeat
NoPingOut == [pong |-> NoPong, heartbeat |-> FALSE, dup |-> FALSE]

\* a peer map, the lastPingFrom of the discoInfo of every disco key, and
\* the outcome of the ping last handled
newPinger ==
    [pm |-> newPeerMap,
     lastPingFrom |-> [dk \in DiscoKeys |-> NoAddr],
     out |-> NoPingOut]

\* no CallMeMaybe was sent to the peer
NoCallMeMaybe == [sent |-> FALSE, seq |-> FALSE]

\* the clock at 0 and no CallMeMaybe sent
NoCallMe == [now |-> 0, sent |-> [nk \in NodeKeys |-> NoCallMeMaybe]]

\* the state after NewConn, starting from the Conn c
InitCore(c) ==
    /\ conn = c
    /\ pconn = [f \in Families |-> IF c.alwaysDERP THEN BlockForeverConn
                                   ELSE UDPConn]
    /\ bind = [closed |-> TRUE, mu |-> "free"]
    /\ derpRecvCh = <<>>
    /\ recv = [fn \in RecvFns |-> "idle"]
    /\ upd = [g \in Goroutines |-> IdleUpdater]
    /\ rebinder = "idle"
    /\ closer = [cl \in Closers |-> "idle"]
    /\ closeRet = [cl \in Closers |-> "none"]
    /\ hist = [reqDuring |-> NoReason, queuedReq |-> NoReason,
               relaunched |-> NoReason, blockCalls |-> 0,
               closeWaited |-> FALSE]
    /\ peerMap = newPeerMap
    /\ netMap = NilNetMap
    /\ derpWriteCh = <<>>
    /\ sender = IdleSender

InitEarly ==
    /\ calc = NoCalc
    /\ rx = NoRx
    /\ tracker = newTracker
    /\ discoInfo = {}
    /\ epCache = [f \in Families |-> NoCache]
    /\ race = newRace

InitLate ==
    /\ binder = boundBinder
    /\ timer = NoTimer
    /\ notified = NoCalls
    /\ cmm = {}
    /\ determined = <<>>
    /\ duo = newDuo
    /\ link = NewEndpoint
    /\ callme = NoCallMe
    /\ pinger = newPinger

InitFrom(c) == InitCore(c) /\ InitEarly /\ InitLate

InitConn(always) == InitFrom(newConn(always))

Init == InitConn(FALSE)

\* ------------------------------------------------------------------------
\* Specification of the endpoint-update scheduler
\* ------------------------------------------------------------------------
PeerSets == {{}, {"n1"}}
SchedKeys == {ZeroKey, 1}
SchedEndpointLists == {<<EpStun>>}

Next ==
    \/ onPortMapChanged
    \/ GoReSTUN
    \/ PeriodicTimerFires
    \/ doPeriodicSTUN
    \/ \E block \in BOOLEAN : SetBlockEndpoints(block)
    \/ \E k \in SchedKeys : SetPrivateKey(k)
    \/ \E ps \in PeerSets : UpdatePeers(ps)
    \/ \E g \in Goroutines : UpdStart(g)
    \/ \E g \in Goroutines : UpdDetermineFails(g)
    \/ \E g \in Goroutines, eps \in SchedEndpointLists :
          UpdDetermine(g, TRUE, eps)
    \/ \E g \in Goroutines : UpdSetEndpoints(g)
    \/ \E g \in Goroutines : UpdDone(g)
    \/ CloseBegin(1)
    \/ CloseWait(1)

Spec == Init /\ [][Next]_vars

\* C31: in every reachable state wantEndpointsUpdate is non-empty only if
\* endpointsUpdateActive is true
WantOnlyWhileActive ==
    conn.wantEndpointsUpdate # NoReason => conn.endpointsUpdateActive

\* an update was asked for during a running one, and then the Conn was closed
\* before the running one returned
WantWhileClosedWitness ==
    /\ conn.wantEndpointsUpdate # NoReason
    /\ conn.endpointsUpdateActive
    /\ conn.closed
    /\ \E g \in Goroutines : upd[g].pc = "done"

\* C1: at most one updateEndpoints goroutine runs at any time, and while one
\* runs endpointsUpdateActive is true, whatever ReSTUN, SetBlockEndpoints,
\* port-map and timer triggers arrive
OneUpdateAtATime ==
    /\ Cardinality(Running) <= 1
    /\ Running # {} => conn.endpointsUpdateActive

\* a trigger arrived while an update was running and was queued, not started
OneUpdateWitness ==
    /\ Cardinality(Running) = 1
    /\ conn.wantEndpointsUpdate = WhyPortMap
    /\ hist.reqDuring = WhyPortMap

\* a step in which updater g runs its deferred function
Finishes(g) == upd[g].pc = "done" /\ upd'[g].pc # "done"

\* exactly one update is running after the step, just started with reason why
RelaunchedWith(why) ==
    /\ Cardinality(Running') = 1
    /\ \A g \in Running' : upd'[g].pc = "start" /\ upd'[g].why = why
    /\ conn'.endpointsUpdateActive
    /\ conn'.wantEndpointsUpdate = NoReason

\* C2 as stated: when ReSTUN was called (or SetBlockEndpoints asked for an
\* update) while an update was running on an open Conn, and the Conn is open
\* when that update finishes, exactly one further update starts at once with
\* the reason of the most recent request
RelaunchAfterAnyRequest ==
    [][\A g \in Goroutines :
          Finishes(g) /\ ~conn.closed /\ hist.reqDuring # NoReason
             => RelaunchedWith(hist.reqDuring)]_vars

\* C2, amended: the same for the requests ReSTUN did not ignore (it ignores
\* every call made while the private key is zero after a key was once set);
\* and with no such request none is started
RelaunchAfterAcceptedRequest ==
    [][\A g \in Goroutines :
          Finishes(g) /\ ~conn.closed
             => IF hist.queuedReq # NoReason
                THEN RelaunchedWith(hist.queuedReq)
                ELSE Running' = {} /\ ~conn'.endpointsUpdateActive]_vars

\* an update was relaunched with the reason of a request that replaced an
\* earlier one
RelaunchWitness ==
    /\ hist.relaunched = WhySetBlockEndpoints
    /\ \E g \in Goroutines : upd[g] = [pc |-> "start",
                                        why |-> WhySetBlockEndpoints,
                                        eps |-> <<>>]
    /\ ~conn.closed

\* ------------------------------------------------------------------------
\* Specification of sending
\* ------------------------------------------------------------------------
NextSend ==
    \/ \E dm \in {TRUE} : SetDERPMap(dm)
    \/ \E k \in {1} : SetPrivateKey(k)
    \/ \E up \in BOOLEAN : SetNetworkUp(up)
    \/ \E addr \in SendAddrs, lost \in BOOLEAN : Send(addr, lost)
    \/ \E dst \in SendAddrs, lost \in BOOLEAN : sendDiscoMessage(dst, lost)
    \/ SendAddrSelect
    \/ RunDerpWriter
    \/ DerpConnectDone
    \/ \E cl \in Closers : CloseBegin(cl)
    \/ \E cl \in Closers : CloseWait(cl)

SpecSend == Init /\ [][NextSend]_vars

\* C7: a Send or sendDiscoMessage call made after Conn.Close has returned
\* transmits nothing and returns errConnClosed
SendAfterCloseFails ==
    sender.pc = "idle" /\ sender.call # "none" /\ sender.afterClose
       => ~sender.sent /\ sender.err = ErrConnClosed

\* sendDiscoMessage was called after Close and returned errConnClosed
SendAfterCloseWitness ==
    /\ sender.pc = "idle" /\ sender.call = "disco" /\ sender.afterClose
    /\ ~sender.sent /\ sender.err = ErrConnClosed

\* a step in which sendAddr's select runs with the write queue full
SelectOnFullQueue ==
    /\ sender.pc = "select" /\ sender'.pc = "idle"
    /\ Len(derpWriteCh) >= MaxDerpWrites

\* C8 as stated: sendAddr never blocks, and with the write queue full it
\* returns sent=false and errDropDerpPacket and leaves the queue as it was
FullQueueDrops ==
    /\ [](sender.pc = "select" => ENABLED SendAddrSelect)
    /\ [][SelectOnFullQueue
            => /\ ~sender'.sent /\ sender'.err = ErrDropDerpPacket
               /\ derpWriteCh' = derpWriteCh]_vars

\* C8, amended: the error is errDropDerpPacket on an open Conn and
\* errConnClosed when the Conn was closed before the select
FullQueueDropsOrClosed ==
    /\ [](sender.pc = "select" => ENABLED SendAddrSelect)
    /\ [][SelectOnFullQueue
            => /\ ~sender'.sent
               /\ sender'.err = IF conn.closed THEN ErrConnClosed
                                 ELSE ErrDropDerpPacket
               /\ derpWriteCh' = derpWriteCh]_vars

\* a packet was dropped on a full queue, which still holds what it held
FullQueueWitness ==
    /\ sender.pc = "idle" /\ sender.err = ErrDropDerpPacket /\ ~sender.sent
    /\ Len(derpWriteCh) = MaxDerpWrites

\* ------------------------------------------------------------------------
\* Specification of the receive functions
\* ------------------------------------------------------------------------
\* with bound UDP sockets, or (TS_DEBUG_ALWAYS_USE_DERP) with the relay only
InitRecv == \E always \in BOOLEAN : InitConn(always)

NextRecv ==
    \/ \E dm \in {TRUE} : SetDERPMap(dm)
    \/ \E k \in {1} : SetPrivateKey(k)
    \/ \E dst \in {DerpMagicIPAddr} : sendDiscoMessage(dst, FALSE)
    \/ SendAddrSelect
    \/ DerpConnectDone
    \/ RunDerpReader
    \/ BindOpen
    \/ BindCloseLock
    \/ BindCloseSend
    \/ \E f \in Families : UDPReadFails(f)
    \/ ReceiveDERPTake
    \/ ReceiveDERPCheck
    \/ \E cl \in {1} : CloseBegin(cl)
    \/ \E cl \in {1} : CloseWait(cl)

\* every goroutine that can take a step is scheduled: the receive functions
\* and the caller of connBind.Close
FairRecv ==
    /\ InitRecv /\ [][NextRecv]_vars
    /\ WF_vars(BindCloseSend)
    /\ \A f \in Families : WF_vars(UDPReadFails(f))
    /\ WF_vars(ReceiveDERPTake)
    /\ WF_vars(ReceiveDERPCheck)

\* the receive function fn is blocked waiting for a datagram
Blocked(fn) ==
    /\ recv[fn] = "reading"
    /\ fn = "derp" => derpRecvCh = <<>>

\* C4: a receive function that is blocked when connBind.Close is called
\* eventually returns (with net.ErrClosed)
BlockedReceiveReturns ==
    \A fn \in RecvFns :
       (bind.closed /\ Blocked(fn)) ~> (recv[fn] = "done")

\* connBind.Close was called with all three receive functions blocked, and
\* they have returned
BlockedReceiveWitness ==
    /\ bind.closed /\ bind.mu = "free"
    /\ \A fn \in RecvFns : recv[fn] = "done"

\* connBind.Close holds connBind.mu and waits for room on derpRecvCh, while
\* receiveDERP holds a read result and waits for connBind.mu in isClosed
BindCloseDeadlock ==
    /\ bind.mu = "Close"
    /\ Len(derpRecvCh) = DerpRecvChCap
    /\ recv["derp"] = "check"

\* ------------------------------------------------------------------------
\* Specification of shutdown
\* ------------------------------------------------------------------------
CloseEndpointLists == {<<EpStun>>}

NextClose ==
    \/ onPortMapChanged
    \/ GoReSTUN
    \/ \E block \in BOOLEAN : SetBlockEndpoints(block)
    \/ \E dm \in {TRUE} : SetDERPMap(dm)
    \/ \E k \in {1} : SetPrivateKey(k)
    \/ DerpConnectDone
    \/ \E g \in Goroutines : UpdStart(g)
    \/ \E g \in Goroutines : UpdCheckClosed(g)
    \/ \E g \in Goroutines, ok4 \in BOOLEAN : UpdRebind(g, ok4, TRUE)
    \/ \E g \in Goroutines : UpdReset(g)
    \/ \E g \in Goroutines : UpdDetermineFails(g)
    \/ \E g \in Goroutines, canSend4 \in BOOLEAN,
          eps \in CloseEndpointLists : UpdDetermine(g, canSend4, eps)
    \/ \E g \in Goroutines : UpdSetEndpoints(g)
    \/ \E g \in Goroutines : UpdDone(g)
    \/ \E cl \in Closers : CloseBegin(cl)
    \/ \E cl \in Closers : CloseWait(cl)

SpecClose == Init /\ [][NextClose]_vars

\* a step in which the Close call of cl returns
Returns(cl) == closer[cl] # "returned" /\ closer'[cl] = "returned"

\* after the step no updateEndpoints goroutine is running and the goroutine
\* of the first relay connect, if there was one, has finished
NoGoroutinesAfter ==
    /\ Running' = {}
    /\ ~conn'.endpointsUpdateActive
    /\ ~conn'.derpConnecting

\* C3 as stated: whenever any call of Conn.Close returns, no endpoint update
\* is running and the first relay-connect goroutine has finished
EveryCloseWaits ==
    [][\A cl \in Closers : Returns(cl) => NoGoroutinesAfter]_vars

\* C3, amended: the same for the Close call that closes the Conn (the one
\* that found it open)
FirstCloseWaits ==
    [][\A cl \in Closers :
          Returns(cl) /\ (closer[cl] = "waiting" \/ ~conn.closed)
             => NoGoroutinesAfter]_vars

\* a call of Conn.Close has returned and none is in progress
CloseHasReturned ==
    /\ \E cl \in Closers : closer[cl] = "returned"
    /\ \A cl \in Closers : closer[cl] # "waiting"

\* C36: after Conn.Close has returned no operation starts a new
\* endpoint-discovery pass: endpointsUpdateActive is false in every later
\* state, whichever public methods are called afterwards
NoUpdateAfterClose ==
    CloseHasReturned => ~conn.endpointsUpdateActive

\* the updateEndpoints goroutine that SetBlockEndpoints started after Close
\* had returned
UpdateAfterCloseWitness ==
    /\ CloseHasReturned
    /\ conn.endpointsUpdateActive
    /\ \E g \in Goroutines : upd[g].pc # "done" /\ upd[g].why = WhySetBlockEndpoints

\* a Close call waited for an endpoint update and for the relay connect,
\* and has returned
FirstCloseWitness ==
    /\ hist.closeWaited
    /\ \E cl \in Closers : closer[cl] = "returned"
    /\ conn.activeDerp /\ conn.derpStarted

\* C5: a Close call on a Conn that is already closed returns nil and changes
\* nothing
LaterCloseNoEffect ==
    [][\A cl \in Closers :
          closer[cl] = "idle" /\ closer'[cl] # "idle" /\ conn.closed
             => /\ closer'[cl] = "returned" /\ closeRet'[cl] = "nil"
                /\ UNCHANGED <<conn, pconn, bind, derpRecvCh, recv, upd,
                               rebinder, peerMap, netMap, derpWriteCh,
                               sender, xAux>>]_vars

\* every caller of Close has returned with nil; all but one were later calls
LaterCloseWitness ==
    \A cl \in Closers : closer[cl] = "returned" /\ closeRet[cl] = "nil"

\* ------------------------------------------------------------------------
\* Specification of the peer map
\* ------------------------------------------------------------------------
\* the nodes a network map can hold for the key k: a legacy node, a node
\* with a disco key, a WireGuard-only node with an endpoint; the last key is
\* that of a node that never had a disco key
LegacyNode(k) ==
    [Key |-> k, DiscoKey |-> ZeroKey, IsWireGuardOnly |-> FALSE,
     Endpoints |-> {}]

NodesOf(k) ==
    IF k = Cardinality(NodeKeys) THEN {LegacyNode(k)}
    ELSE {[Key |-> k, DiscoKey |-> d, IsWireGuardOnly |-> FALSE,
           Endpoints |-> {}] : d \in DiscoKeys \cup {ZeroKey}}
         \cup {[Key |-> k, DiscoKey |-> ZeroKey, IsWireGuardOnly |-> TRUE,
                Endpoints |-> {"a1"}]}

\* the peer lists of the network maps: at most one node for each key, in
\* the order of the keys
RECURSIVE PeerLists(_)
PeerLists(k) ==
    IF k > Cardinality(NodeKeys) THEN {<<>>}
    ELSE LET rest == PeerLists(k + 1)
         IN  rest \cup {<<n>> \o r : n \in NodesOf(k), r \in rest}

NetMaps == {[isNil |-> FALSE, Peers |-> ps] : ps \in PeerLists(1)}

\* the pings received, as <<source, disco key, node key>>: from a1 with the
\* node key 2, from a2 with no node key
PeerPings == {<<"a1", 2, 2>>, <<"a2", 1, ZeroKey>>, <<"a2", 2, ZeroKey>>}

NextPeers ==
    \/ \E nm \in NetMaps : SetNetworkMap(nm)
    \/ \E k \in {1} : SetPrivateKey(k)
    \/ \E p \in PeerPings :
          handleDiscoMessage([kind |-> "ping", sender |-> p[2], opens |-> TRUE,
                              nodeKey |-> p[3], txid |-> 1], p[1], ZeroKey)
    \/ \E cl \in {1} : CloseBegin(cl)

SpecPeers == Init /\ [][NextPeers]_vars

\* ParseEndpoint(nodeKeyStr) for the node key k: WireGuard gets the endpoint
\* it sends the peer's packets through, or an error
ParseEndpoint(c, pm, k) ==
    IF c.closed THEN [ok |-> FALSE, err |-> ErrConnClosed]
    ELSE IF endpointForNodeKey(pm, k) = NoPeer
    THEN [ok |-> FALSE, err |-> "unknown peer"]
    ELSE [ok |-> TRUE, ep |-> pm.heap[endpointForNodeKey(pm, k)].ep]

\* the peers of the network map that have no disco key and are not
\* WireGuard-only
LegacyPeers == {n \in {netMap.Peers[i] : i \in 1..Len(netMap.Peers)} :
                   Legacy(n)}

\* C27: a peer without a disco key that is not WireGuard-only is routed
\* through the relay: WireGuard gets an endpoint to send its packets
\* through, which has no direct address selected and to which no disco ping
\* was sent
LegacyViaRelay ==
    ~conn.closed =>
       \A n \in LegacyPeers :
          LET r == ParseEndpoint(conn, peerMap, n.Key)
          IN  /\ r.ok
              /\ r.ep.bestAddr = NoBestAddr
              /\ r.ep.sentPing = {}

\* a peer without a disco key that is not WireGuard-only has no endpoint:
\* nothing is sent to it, directly or through the relay
LegacyHasNoEndpoint ==
    ~conn.closed =>
       \A n \in LegacyPeers : ~ParseEndpoint(conn, peerMap, n.Key).ok

\* the network map names the peer 1 without a disco key, after one that gave
\* it a disco key, and ParseEndpoint does not know the peer
LegacyUnknownWitness ==
    /\ ~conn.closed /\ conn.privateKey # ZeroKey
    /\ \E n \in LegacyPeers : n.Key = 1
    /\ ParseEndpoint(conn, peerMap, 1).err = "unknown peer"
    /\ peerMap.byNodeKey[1] = NoPeer

\* the node keys that have an endpoint
Present == {k \in NodeKeys : peerMap.byNodeKey[k] # NoPeer}

\* C9: the three indices of the peer map are consistent (peerMap.validate)
PeerMapValid ==
    /\ \A k \in Present :
          LET pi == peerMap.byNodeKey[k]
          IN  /\ ~peerMap.heap[pi].free
              /\ peerMap.heap[pi].ep.publicKey = k
              /\ \A k2 \in Present : peerMap.byNodeKey[k2] = pi => k2 = k
              /\ \A a \in peerMap.heap[pi].ipPorts : peerMap.byIPPort[a] = pi
    /\ \A a \in Addrs :
          LET pi == peerMap.byIPPort[a]
          IN  pi # NoPeer
                 => /\ ~peerMap.heap[pi].free
                    /\ a \in peerMap.heap[pi].ipPorts
                    /\ peerMap.byNodeKey[peerMap.heap[pi].ep.publicKey] = pi
    /\ \A d \in DOMAIN peerMap.nodesOfDisco :
          \A k \in peerMap.nodesOfDisco[d] :
             /\ k \in Present
             /\ \A d2 \in DOMAIN peerMap.nodesOfDisco :
                   k \in peerMap.nodesOfDisco[d2] => d2 = d

\* peers came, changed their disco key and an address was rebound by a ping
PeerMapWitness ==
    /\ Cardinality(Present) = 2
    /\ peerMap.byIPPort["a1"] # NoPeer
    /\ peerMap.byIPPort["a2"] # NoPeer
    /\ peerMap.byIPPort["a1"] # peerMap.byIPPort["a2"]
    /\ peerMap.nodesOfDisco[2] = Present

\* C10: the node keys with an endpoint are those of the peers of the last
\* network map that have a disco key or are WireGuard-only, and no address
\* maps to another peer
PeersMatchNetMap ==
    ~netMap.isNil
       => /\ Present = {netMap.Peers[i].Key : i \in
                           {j \in 1..Len(netMap.Peers) :
                               ~Legacy(netMap.Peers[j])}}
          /\ \A a \in Addrs :
                peerMap.byIPPort[a] # NoPeer
                   => peerMap.heap[peerMap.byIPPort[a]].ep.publicKey
                         \in Present

\* a peer left the network map, was deleted, and another peer is present
PeersMatchWitness ==
    /\ ~netMap.isNil /\ Len(netMap.Peers) = 1
    /\ Present = {netMap.Peers[1].Key}
    /\ peerMap.byIPPort["a2"] # NoPeer

\* the keys of the peers of a network map
KeysOf(nm) == {nm.Peers[i].Key : i \in 1..Len(nm.Peers)}

\* nm replaces the node key k1 of the prior network map by k2 and keeps its
\* disco key d
Rotates(prior, nm, k1, k2, d) ==
    /\ ~prior.isNil
    /\ k1 # k2 /\ k1 \notin KeysOf(nm) /\ k2 \notin KeysOf(prior)
    /\ \E i \in 1..Len(prior.Peers) :
          prior.Peers[i].Key = k1 /\ prior.Peers[i].DiscoKey = d
    /\ \E j \in 1..Len(nm.Peers) :
          nm.Peers[j].Key = k2 /\ nm.Peers[j].DiscoKey = d

\* SetNetworkMap with a network map that rotates a node key leaves no
\* endpoint for the old key and one with the kept disco key for the new key
RotationRelinks ==
    \A nm \in NetMaps, k1, k2 \in NodeKeys, d \in DiscoKeys :
       (~conn.closed /\ Rotates(netMap, nm, k1, k2, d) /\ SetNetworkMap(nm))
          => /\ peerMap'.byNodeKey[k1] = NoPeer
             /\ peerMap'.byNodeKey[k2] # NoPeer
             /\ peerMap'.heap[peerMap'.byNodeKey[k2]].ep.disco = <<d>>
             /\ k2 \in peerMap'.nodesOfDisco[d]
             /\ k1 \notin peerMap'.nodesOfDisco[d]

\* SetNetworkMap with the peers of the current network map changes nothing
SameNetMapNoChange ==
    \A nm \in NetMaps :
       (~netMap.isNil /\ nm.Peers = netMap.Peers /\ SetNetworkMap(nm))
          => peerMap' = peerMap

\* C11: when a network map replaces a peer's node key and keeps its disco
\* key, the old node key has no endpoint afterwards, the new one has an
\* endpoint with that disco key, and the same network map applied again
\* changes no peer state
KeyRotation == [][RotationRelinks /\ SameNetMapNoChange]_vars

\* the node key 1 was replaced by 2 under the disco key 1, and the old key
\* is gone
KeyRotationWitness ==
    /\ ~netMap.isNil /\ KeysOf(netMap) = {2}
    /\ netMap.Peers[1].DiscoKey = 1
    /\ peerMap.byNodeKey[1] = NoPeer
    /\ peerMap.nodesOfDisco[1] = {2}
    /\ peerMap.byIPPort["a2"] = peerMap.byNodeKey[2]

\* the same, when the peer map holds no stale endpoint and the new network
\* map no legacy peer
KeyRotationWithoutLegacy ==
    [][(/\ PeersMatchNetMap
        /\ \A i \in 1..Len(netMap'.Peers) : ~Legacy(netMap'.Peers[i]))
          => (RotationRelinks /\ SameNetMapNoChange)]_vars

\* ------------------------------------------------------------------------
\* Specification of betterAddr
\* ------------------------------------------------------------------------
\* latencies in milliseconds, those of TestBetterAddr
Latencies == {0, 5, 30, 91, 100, 101, 103}

\* the zero addrLatency and the candidates with a latency
AddrLatencies ==
    {[addr |-> NoAddr, latency |-> 0]}
    \cup {[addr |-> x, latency |-> l] : x \in CandidateAddrs, l \in Latencies}

InitBetter ==
    /\ InitCore(newConn(FALSE))
    /\ \E a, b \in AddrLatencies :
          calc = [done |-> FALSE, a |-> a, b |-> b, ab |-> FALSE,
                  ba |-> FALSE]
    /\ rx = NoRx
    /\ tracker = newTracker
    /\ discoInfo = {}
    /\ epCache = [f \in Families |-> NoCache]
    /\ race = newRace
    /\ InitLate

NextBetter == CallBetterAddr

SpecBetter == InitBetter /\ [][NextBetter]_vars

DiscoNode(k, d) ==
    [Key |-> k, DiscoKey |-> d, IsWireGuardOnly |-> FALSE, Endpoints |-> {}]

\* network maps with one peer, two peers that share a disco key, and two
\* peers with a disco key each
PingNetMaps ==
    {[isNil |-> FALSE, Peers |-> ps] :
        ps \in {<<DiscoNode(1, 1)>>,
                <<DiscoNode(1, 1), DiscoNode(2, 1)>>,
                <<DiscoNode(1, 1), DiscoNode(2, 2)>>}}

\* the pings: sealed by a disco key, with or without the node key of their
\* sender
Pings ==
    {[kind |-> "ping", sender |-> dk, opens |-> TRUE, nodeKey |-> nk,
      txid |-> t] : dk \in DiscoKeys, nk \in {ZeroKey, 1}, t \in TxIDs}

NextPing ==
    \/ \E k \in {1} : SetPrivateKey(k)
    \/ \E nm \in PingNetMaps : SetNetworkMap(nm)
    \/ \E dm \in Pings : handleDiscoMessage(dm, "a1", ZeroKey)
    \/ \E dm \in Pings, derpNodeSrc \in {1, 2} :
          handleDiscoMessage(dm, DerpMagicIPAddr, derpNodeSrc)

SpecPing == Init /\ [][NextPing]_vars

\* the ping dm from src is one that handleDiscoMessage hands to
\* handlePingLocked
PingAccepted(dm, src) ==
    /\ ~conn.closed /\ conn.privateKey # ZeroKey
    /\ src # DerpMagicIPAddr => ~conn.blockEndpoints
    /\ anyEndpointForDiscoKey(peerMap, dm.sender)
    /\ dm.opens /\ dm.kind = "ping"

\* the endpoints handlePingLocked records the ping for
PingTargets(dm, src, derpNodeSrc) ==
    IF src = DerpMagicIPAddr
    THEN {k \in {derpNodeSrc} : peerMap.byNodeKey[k] # NoPeer}
    ELSE peerMap.nodesOfDisco[dm.sender]

\* the ping (src, txid) is the last one the endpoint of k got from src
AlreadyGot(k, src, txid) ==
    <<src, txid>> \in peerMap.heap[peerMap.byNodeKey[k]].ep.gotPing

\* a ping that is a duplicate for the endpoint of k gets no Pong and leaves
\* the addresses and recorded pings of that endpoint as they are
DuplicateIgnored(dm, src, derpNodeSrc) ==
    \A k \in PingTargets(dm, src, derpNodeSrc) :
       (/\ PingAccepted(dm, src)
        /\ AlreadyGot(k, src, dm.txid)
        /\ ~(/\ rx'.act = "none"
             /\ peerMap'.byNodeKey[k] # NoPeer
             /\ peerMap'.heap[peerMap'.byNodeKey[k]].ep
                   = peerMap.heap[peerMap.byNodeKey[k]].ep))
          => ~handleDiscoMessage(dm, src, derpNodeSrc)

\* the node key the address a is bound to in the peer map pm, if any
NodeOfAddr(pm, a) ==
    IF pm.byIPPort[a] = NoPeer THEN ZeroKey
    ELSE pm.heap[pm.byIPPort[a]].ep.publicKey

\* the node key nk has an endpoint whose disco key is dk
NodeHasDisco(nk, dk) ==
    /\ nk # ZeroKey
    /\ peerMap.byNodeKey[nk] # NoPeer
    /\ peerMap.heap[peerMap.byNodeKey[nk]].ep.disco = <<dk>>

\* the nodes a ping by UDP may be taken to be from: the node it declares,
\* if that has the sender's disco key, else the only node that has it
PingNodes(dm) ==
    IF NodeHasDisco(dm.nodeKey, dm.sender) THEN {dm.nodeKey}
    ELSE IF Cardinality(peerMap.nodesOfDisco[dm.sender]) = 1
    THEN peerMap.nodesOfDisco[dm.sender]
    ELSE {}

\* what a ping by UDP from src does to the index of addresses: src is bound
\* to the node the ping is from without ambiguity, which has the sender's
\* disco key, and nothing changes when there is no such node
PingBinds(dm, src) ==
    /\ \A nk \in PingNodes(dm) :
          /\ NodeOfAddr(peerMap', src) = nk
          /\ NodeHasDisco(nk, dm.sender)
    /\ PingNodes(dm) = {} => NodeOfAddr(peerMap', src) = NodeOfAddr(peerMap, src)
    /\ \A a \in Addrs \ {src} :
          NodeOfAddr(peerMap', a) = NodeOfAddr(peerMap, a)

\* C35: a disco ping received over UDP binds its source address to a node
\* key only when the node is unambiguous, the node the ping declares or else
\* the only node with the sender's disco key, and that node's disco key is
\* the sender's; an ambiguous ping leaves the index of addresses unchanged
PingBindsUnambiguous ==
    [][\A dm \in Pings :
          \/ ~PingAccepted(dm, "a1")
          \/ PingBinds(dm, "a1")
          \/ ~handleDiscoMessage(dm, "a1", ZeroKey)]_vars

\* two nodes share a disco key, a ping was handled and its address is bound
\* to node 1, which pings declare
DeclaredNodeWitness ==
    /\ peerMap.nodesOfDisco[1] = {1, 2}
    /\ NodeOfAddr(peerMap, "a1") = 1
    /\ rx.metric = "ping"

\* C13: a disco ping that addCandidateEndpoint reports as a duplicate
\* creates no second candidate and is not answered with a second Pong
DuplicatePingNoOp ==
    [][/\ \A dm \in Pings : DuplicateIgnored(dm, "a1", ZeroKey)
       /\ \A dm \in Pings, derpNodeSrc \in NodeKeys :
             DuplicateIgnored(dm, DerpMagicIPAddr, derpNodeSrc)]_vars

\* two endpoints share a disco key, both recorded the address of the ping,
\* and the ping last handled was a duplicate that got no Pong
DuplicatePingWitness ==
    /\ rx.dup /\ rx.act = "none"
    /\ peerMap.nodesOfDisco[1] = {1, 2}
    /\ \A k \in {1, 2} :
          "a1" \in peerMap.heap[peerMap.byNodeKey[k]].ep.endpointState

\* ------------------------------------------------------------------------
\* Specification of the answers to pings
\* ------------------------------------------------------------------------
\* SetNetworkMap(nm) on the peer map of the pinger; the discoInfo of a disco
\* key that no endpoint has any more is deleted
PingerSetNetworkMap(nm) ==
    /\ \E pm1 \in {collect(deletionPass(upsertPass(pinger.pm, nm.Peers),
                                        nm.Peers))} :
          /\ pm1 # pinger.pm
          /\ pinger' = [pinger EXCEPT
                !.pm = pm1,
                !.lastPingFrom = [dk \in DiscoKeys |->
                      IF anyEndpointForDiscoKey(pm1, dk) THEN @[dk]
                      ELSE NoAddr]]
    /\ UNCHANGED <<conn, xSock, xBind, xClose, upd, rebinder, hist, peerMap,
                   netMap, derpWriteCh, sender, xEarly, xLateButPinger>>

\* handlePingLocked(dm, src, di, derpNodeSrc) for a ping that
\* handleDiscoMessage authenticated: the sender's disco key has an endpoint
\* and the box opened; the last ping of the sender was got more than five
\* seconds ago or just now
handlePing(dm, src, derpNodeSrc) ==
    /\ anyEndpointForDiscoKey(pinger.pm, dm.sender)
    /\ \E keys \in Orders(pinger.pm.nodesOfDisco[dm.sender]) :
       \E r \in {handlePingLocked(pinger.pm, dm, src, dm.sender, derpNodeSrc,
                                  keys)} :
       \E since \in {0, 5} :
          pinger' = [pinger EXCEPT
             !.pm = collect(r.pm),
             !.lastPingFrom[dm.sender] = src,
             !.out = [pong |-> IF r.pong THEN r.msg ELSE NoPong,
                      heartbeat |-> likelyHeartBeat(src,
                                       pinger.lastPingFrom[dm.sender],
                                       since),
                      dup |-> r.dup]]
    /\ UNCHANGED <<conn, xSock, xBind, xClose, upd, rebinder, hist, peerMap,
                   netMap, derpWriteCh, sender, xEarly, xLateButPinger>>

NextPong ==
    \/ \E nm \in PingNetMaps : PingerSetNetworkMap(nm)
    \/ \E dm \in Pings : handlePing(dm, "a1", ZeroKey)
    \/ \E dm \in Pings, derpNodeSrc \in {1, 2} :
          handlePing(dm, DerpMagicIPAddr, derpNodeSrc)

SpecPong == Init /\ [][NextPong]_vars

\* the endpoints handlePingLocked records the ping for
PongTargets(dm, src, derpNodeSrc) ==
    IF src = DerpMagicIPAddr
    THEN {k \in {derpNodeSrc} : pinger.pm.byNodeKey[k] # NoPeer}
    ELSE pinger.pm.nodesOfDisco[dm.sender]

\* the Pong a ping from src is answered with; over the relay it goes to the
\* node the relay named, over UDP to the address alone
AnsweredWith(dm, src, derpNodeSrc) ==
    /\ pinger'.out.pong # NoPong
    /\ pinger'.out.pong.TxID = dm.txid
    /\ pinger'.out.pong.Src = src
    /\ pinger'.out.pong.ipDst = src
    /\ pinger'.out.pong.discoDest = dm.sender
    /\ src = DerpMagicIPAddr => pinger'.out.pong.dstKey = derpNodeSrc

\* a ping from a peer with an endpoint that no endpoint it is recorded for
\* got before is answered: no step that ends without that Pong, and with
\* src as the sender's lastPingFrom, handles it
PingAnswered(dm, src, derpNodeSrc) ==
    (/\ PongTargets(dm, src, derpNodeSrc) # {}
     /\ \A k \in PongTargets(dm, src, derpNodeSrc) :
           <<src, dm.txid>> \notin
              pinger.pm.heap[pinger.pm.byNodeKey[k]].ep.gotPing
     /\ ~AnsweredWith(dm, src, derpNodeSrc)
     /\ pinger'.lastPingFrom[dm.sender] = src)
       => ~handlePing(dm, src, derpNodeSrc)

\* C32: every authenticated disco ping from a known peer that is not a
\* duplicate transaction is answered with one Pong that echoes the ping's
\* transaction id and reports its observed source address, sent back to
\* that source (over the relay to the relay's source node); pings classed
\* as heartbeats are answered too
PingAnsweredOnce ==
    [][/\ \A dm \in Pings : PingAnswered(dm, "a1", ZeroKey)
       /\ \A dm \in Pings, derpNodeSrc \in {1, 2} :
             PingAnswered(dm, DerpMagicIPAddr, derpNodeSrc)]_vars

\* a ping classed as a heartbeat, with a new transaction id from the address
\* of the ping before it, was answered
HeartbeatAnsweredWitness ==
    /\ pinger.out.heartbeat /\ pinger.out.pong # NoPong
    /\ pinger.out.pong.TxID = 2 /\ pinger.out.pong.Src = "a1"
    /\ pinger.out.pong.ipDst = "a1"

\* a ping that came over the relay from node 2 was answered over the relay
RelayPongWitness ==
    /\ pinger.out.pong # NoPong
    /\ pinger.out.pong.ipDst = DerpMagicIPAddr
    /\ pinger.out.pong.dstKey = 2

\* ------------------------------------------------------------------------
\* Specification of the endpoint tracker
\* ------------------------------------------------------------------------
TrackerEndpoints ==
    {[Addr |-> a, Type |-> t] : a \in Addrs, t \in {EndpointSTUN, EndpointLocal}}

\* the slices determineEndpoints passes to update: it adds an address once
\* (addAddr)
TrackerInputs ==
    {<<>>} \cup {<<e>> : e \in TrackerEndpoints}
           \cup {p \in TrackerEndpoints \X TrackerEndpoints :
                   p[1].Addr # p[2].Addr}

\* the clock of the callers does not run backwards
NextTracker ==
    \E now \in 0..MaxTime, eps \in TrackerInputs : TrackerUpdate(now, eps)

SpecTracker == Init /\ [][NextTracker]_vars

\* the cached addresses whose expiry is not before now
Unexpired(now) ==
    {a \in Addrs : tracker.cache[a].found /\ tracker.cache[a].until >= now}

\* update(now, eps) returns eps, then the unexpired cached addresses that
\* are not in eps, each address once
ReturnsInputPlusCached(now, eps) ==
    LET ret == tracker'.ret
    IN  /\ SubSeq(ret, 1, Len(eps)) = eps
        /\ addrsOf(ret) = addrsOf(eps) \cup Unexpired(now)
        /\ \A i, j \in 1..Len(ret) : ret[i].Addr = ret[j].Addr => i = j

\* update(t, {}) right after update(t, S), on a tracker that holds no
\* address outside S, returns the addresses of S
ReturnsLastInput(now, eps) ==
    (/\ tracker.called /\ now = tracker.now /\ eps = <<>>
     /\ \A a \in Addrs : tracker.cache[a].found => a \in addrsOf(tracker.eps))
       => addrsOf(tracker'.ret) = addrsOf(tracker.eps)

\* update(t', {}) later than the lifetime after update(t, S) returns nothing
ReturnsNothingLater(now, eps) ==
    (/\ tracker.called /\ eps = <<>>
     /\ now > tracker.now + endpointTrackerLifetime)
       => tracker'.ret = <<>>

\* C14: update(now, E) returns E plus every cached address not in E whose
\* expiry is not before now, each address once; so update(t, {}) right
\* after update(t, S) returns S, and later than the lifetime it returns
\* the empty slice
TrackerReturns ==
    [][\A now \in 0..MaxTime, eps \in TrackerInputs :
          TrackerUpdate(now, eps)
             => /\ ReturnsInputPlusCached(now, eps)
                /\ ReturnsLastInput(now, eps)
                /\ ReturnsNothingLater(now, eps)]_vars

\* update(t, {}) has returned the two addresses of the call before it, at
\* the same time
TrackerReturnsWitness ==
    /\ tracker.called /\ tracker.eps = <<>>
    /\ addrsOf(tracker.ret) = Addrs
    /\ \A a \in Addrs : tracker.observed[a] = tracker.now

\* an address last observed at t1 and missing from the input is returned
\* up to t1 + endpointTrackerLifetime, and after that it is neither
\* returned nor kept
LifetimeOf(a, now, eps) ==
    LET t1 == tracker.observed[a]
    IN  (t1 # NoTime /\ a \notin addrsOf(eps))
           => IF now <= t1 + endpointTrackerLifetime
              THEN a \in addrsOf(tracker'.ret) /\ tracker'.cache[a].found
              ELSE a \notin addrsOf(tracker'.ret) /\ ~tracker'.cache[a].found

\* C15: the lifetime of an address runs from the last update that had it in
\* its input: until then plus endpointTrackerLifetime update returns it,
\* afterwards update neither returns it nor keeps it in the cache
LifetimeFromLastObservation ==
    [][\A now \in 0..MaxTime, eps \in TrackerInputs :
          TrackerUpdate(now, eps)
             => \A a \in Addrs : LifetimeOf(a, now, eps)]_vars

\* one address was observed again and is returned at the end of its
\* extended lifetime, while the other, observed with it at first, is gone
LifetimeWitness ==
    /\ tracker.called /\ tracker.eps = <<>>
    /\ tracker.observed["a1"] > 0
    /\ tracker.now = tracker.observed["a1"] + endpointTrackerLifetime
    /\ addrsOf(tracker.ret) = {"a1"}
    /\ tracker.observed["a2"] = 0
    /\ ~tracker.cache["a2"].found

\* ------------------------------------------------------------------------
\* Specification of the disco messages
\* ------------------------------------------------------------------------
\* a network map with two peers that have a disco key each and a known
\* address, and one with the first of them only
DiscoNetMaps ==
    {[isNil |-> FALSE, Peers |-> ps] :
        ps \in {<<[DiscoNode(1, 1) EXCEPT !.Endpoints = {"a1"}]>>,
                <<[DiscoNode(1, 1) EXCEPT !.Endpoints = {"a1"}],
                  DiscoNode(2, 2)>>}}

\* the frames with the disco magic: of each kind, sealed by a disco key,
\* with a box that opens or not
DiscoFrames ==
    {[kind |-> k, sender |-> dk, opens |-> o, nodeKey |-> ZeroKey,
      txid |-> 1] :
        k \in {"ping", "pong", "callMeMaybe", "unknown"}, dk \in DiscoKeys,
        o \in BOOLEAN}

\* a frame arrives in a UDP datagram, or in a relay packet, which names the
\* node it is from
NextDisco ==
    \/ \E k \in {1} : SetPrivateKey(k)
    \/ \E nm \in DiscoNetMaps : SetNetworkMap(nm)
    \/ \E nk \in {1} : startDiscoPing(nk, "a1", 1)
    \/ \E dm \in DiscoFrames : handleDiscoMessage(dm, "a1", ZeroKey)
    \/ \E dm \in DiscoFrames, derpNodeSrc \in {1, 2} :
          handleDiscoMessage(dm, DerpMagicIPAddr, derpNodeSrc)

SpecDisco == Init /\ [][NextDisco]_vars

\* a CallMeMaybe starts handleCallMeMaybe only for the endpoint of the relay
\* source, whose disco key is the one that sealed it; when it starts nothing
\* the peer map is as before: a step is like that, or does not handle the
\* frame
CallMeMaybeChecked(dm, src, derpNodeSrc) ==
    \/ dm.kind # "callMeMaybe"
    \/ /\ rx'.act \in {"callMeMaybe", "none"}
       /\ rx'.act = "callMeMaybe"
             => /\ src = DerpMagicIPAddr /\ derpNodeSrc # ZeroKey
                /\ dm.opens
                /\ rx'.key = derpNodeSrc
                /\ peerMap.byNodeKey[derpNodeSrc] # NoPeer
                /\ peerMap.heap[peerMap.byNodeKey[derpNodeSrc]].ep.disco
                      = <<dm.sender>>
       /\ rx'.act = "none" => peerMap' = peerMap
    \/ ~handleDiscoMessage(dm, src, derpNodeSrc)

\* C16: a CallMeMaybe is acted on only if it came by the relay from a node
\* that has an endpoint whose disco key is the sender's; otherwise it is
\* dropped and no peer state changes
CallMeMaybeOnlyViaRelay ==
    [][/\ \A dm \in DiscoFrames : CallMeMaybeChecked(dm, "a1", ZeroKey)
       /\ \A dm \in DiscoFrames, derpNodeSrc \in {1, 2} :
             CallMeMaybeChecked(dm, DerpMagicIPAddr, derpNodeSrc)]_vars

\* handleCallMeMaybe was started for node 2, which has its own disco key
CallMeMaybeWitness ==
    /\ rx.act = "callMeMaybe" /\ rx.key = 2
    /\ peerMap.nodesOfDisco[1] = {1} /\ peerMap.nodesOfDisco[2] = {2}

\* the frame is one handleDiscoMessage parses and acts on
Wellformed(dm) ==
    /\ anyEndpointForDiscoKey(peerMap, dm.sender)
    /\ dm.opens
    /\ dm.kind # "unknown"

\* a disco frame is not for WireGuard, and one that is not well-formed is
\* not answered and changes no endpoint: a step is like that, or does not
\* handle the frame
DiscoFrameChecked(dm, src, derpNodeSrc) ==
    \/ /\ rx'.isDisco /\ ~rx'.reported
       /\ ~Wellformed(dm) => rx'.act = "none" /\ peerMap' = peerMap
    \/ ~handleDiscoMessage(dm, src, derpNodeSrc)

\* C17: a frame with the disco magic and a sender key is never handed to
\* WireGuard, and when its sender is no known peer, its box does not open
\* or its payload does not parse, there is no reply and the peer map and
\* the endpoints' candidates stay as they are
MalformedDiscoDropped ==
    [][/\ \A dm \in DiscoFrames : DiscoFrameChecked(dm, "a1", ZeroKey)
       /\ \A dm \in DiscoFrames, derpNodeSrc \in {1, 2} :
             DiscoFrameChecked(dm, DerpMagicIPAddr, derpNodeSrc)]_vars

\* a frame of a known peer whose box did not open was dropped, while the
\* peer has a ping in flight
MalformedDiscoWitness ==
    /\ rx.isDisco /\ rx.metric = "badKey" /\ rx.act = "none"
    /\ peerMap.byNodeKey[1] # NoPeer
    /\ peerMap.heap[peerMap.byNodeKey[1]].ep.sentPing # {}

\* ------------------------------------------------------------------------
\* Specification of the UDP receive functions
\* ------------------------------------------------------------------------
RecvNetMaps ==
    {[isNil |-> FALSE, Peers |-> ps] :
        ps \in {<<DiscoNode(1, 1)>>, <<DiscoNode(1, 1), DiscoNode(2, 2)>>}}

\* the datagrams from the address a1: a STUN packet, a WireGuard packet, and
\* disco pings sealed by either disco key
Datagrams ==
    {[kind |-> k, src |-> "a1"] : k \in {"stun", "wireguard"}}
       \cup {[kind |-> "disco", src |-> "a1",
              frame |-> [kind |-> "ping", sender |-> dk, opens |-> TRUE,
                         nodeKey |-> ZeroKey, txid |-> t]] :
                dk \in DiscoKeys, t \in TxIDs}

NextReceive ==
    \/ \E k \in {ZeroKey, 1} : SetPrivateKey(k)
    \/ \E nm \in RecvNetMaps : SetNetworkMap(nm)
    \/ BindOpen
    \/ \E d \in Datagrams : ReceiveUDP("udp4", d)

SpecReceive == Init /\ [][NextReceive]_vars

\* the source address maps to an endpoint of the peer map: by the index of
\* addresses, or by the cache of the receive function, whose endpoint was
\* not stopped since the index gave it
MapsToEndpoint(f, ipp) ==
    \/ peerMap.byIPPort[ipp] # NoPeer
    \/ cacheHit(epCache[f], ipp)

\* what the receive function does with the datagram d
ReceiveChecked(f, d) ==
    ReceiveUDP(f, d)
       => /\ rx'.reported
               => /\ d.kind = "wireguard"
                  /\ ~rx'.isDisco
                  /\ conn.privateKey # ZeroKey
                  /\ MapsToEndpoint(f, d.src)
                  /\ peerMap.byNodeKey[rx'.key] # NoPeer
          /\ d.kind # "wireguard" => ~rx'.reported

\* C18: a UDP receive function reports a datagram only if it is neither a
\* STUN packet nor a disco frame, a private key is set and the source
\* address maps to a known endpoint; any other datagram gets size 0
ReportsOnlyPeerTraffic ==
    [][\A d \in Datagrams : ReceiveChecked("udp4", d)]_vars

\* a datagram was reported for the endpoint of node 2 while node 1 is a
\* peer as well
ReportsWitness ==
    /\ rx.reported /\ rx.key = 2
    /\ peerMap.byNodeKey[1] # NoPeer
    /\ epCache["udp4"].set /\ epCache["udp4"].de = 2

\* the datagram d is dropped: nothing is reported or answered, and the peer
\* map with its endpoints is as before
Dropped(d) ==
    /\ ~rx'.reported
    /\ rx'.act = "none"
    /\ peerMap' = peerMap

\* C34: while the private key is zero no inbound datagram is reported to
\* WireGuard and no disco message is processed: no Pong is sent, and no
\* peer-map entry and no candidate address of an endpoint changes
NoKeyNoTraffic ==
    [][\A d \in Datagrams :
          \/ conn.privateKey # ZeroKey
          \/ Dropped(d)
          \/ ~ReceiveUDP("udp4", d)]_vars

\* the key was set and zeroed again, and then a ping of a peer whose address
\* is in the peer map was ignored
NoKeyWitness ==
    /\ conn.privateKey = ZeroKey /\ conn.everHadKey
    /\ rx.isDisco /\ rx.act = "none" /\ rx.metric = "none"
    /\ peerMap.byIPPort["a1"] # NoPeer

\* C38: every datagram a UDP receive function reports is tagged with the
\* endpoint the peer map maps its source address to at that moment: the
\* cache of the receive function never gives an endpoint that was removed
\* from the peer map or whose address was bound to another peer since
ReportedAsMapped ==
    [][\A d \in Datagrams :
          \/ d.kind # "wireguard"
          \/ ~ReceiveUDP("udp4", d)
          \/ ~rx'.reported
          \/ /\ peerMap.byIPPort[d.src] # NoPeer
             /\ rx'.key = NodeOfAddr(peerMap, d.src)]_vars

\* an endpoint that the cache gives is still in the peer map: removing it
\* stops it, which makes the cache stale
CachedEndpointInMap ==
    \A f \in Families :
       \A ipp \in Addrs :
          cacheHit(epCache[f], ipp)
             => peerMap.byNodeKey[epCache[f].de] # NoPeer

\* a packet from a1 was reported for the peer the cache holds, after a ping
\* had bound a1 to another peer
StaleCacheWitness ==
    /\ rx.reported
    /\ cacheHit(epCache["udp4"], "a1")
    /\ rx.key = epCache["udp4"].de
    /\ NodeOfAddr(peerMap, "a1") \notin {ZeroKey, rx.key}

\* ------------------------------------------------------------------------
\* Specification of Rebind and the endpoints
\* ------------------------------------------------------------------------
\* a peer is pinged at its address and answers; Rebind is called on link
\* changes, and binding the IPv4 or the IPv6 socket can fail
NextRebind ==
    \/ \E k \in {1} : SetPrivateKey(k)
    \/ \E nm \in DiscoNetMaps : SetNetworkMap(nm)
    \/ \E nk \in {1}, t \in TxIDs : startDiscoPing(nk, "a1", t)
    \/ \E dk \in {1}, t \in TxIDs :
          handleDiscoMessage([kind |-> "pong", sender |-> dk, opens |-> TRUE,
                              nodeKey |-> ZeroKey, txid |-> t], "a1", ZeroKey)
    \/ Rebind
    \/ RebindReset
    \/ \E cl \in {1} : CloseBegin(cl)

SpecRebind == Init /\ [][NextRebind]_vars

\* the endpoints of the peer map, by node key
endpointsOf(pm) ==
    [k \in endpointKeys(pm) |-> pm.heap[pm.byNodeKey[k]].ep]

\* a step in which a call of Rebind returns
RebindReturns ==
    \/ Rebind /\ rebinder' = "idle"
    \/ RebindReset

\* the best address of no endpoint is trusted, and the addresses, the
\* replies recorded for them and the best addresses are those of before
TrustInvalidated ==
    /\ endpointKeys(peerMap') = endpointKeys(peerMap)
    /\ \A k \in endpointKeys(peerMap) :
          LET old == endpointsOf(peerMap)[k]
              new == endpointsOf(peerMap')[k]
          IN  /\ ~new.trustBestAddr
              /\ new.endpointState = old.endpointState
              /\ new.recentPongs = old.recentPongs
              /\ new.bestAddr = old.bestAddr

\* C19: when a call of Rebind returns on an open Conn, noteConnectivityChange
\* has been applied to every endpoint: no best address is trusted any more,
\* and the candidates and the round trips recorded are unchanged
RebindInvalidatesTrust ==
    [][(RebindReturns /\ ~conn'.closed) => TrustInvalidated]_vars

\* Rebind has returned after failing to bind the IPv4 socket, and an
\* endpoint still trusts its best address
RebindFailedWitness ==
    /\ rebinder = "idle" /\ ~conn.closed
    /\ pconn["udp4"] = BlockForeverConn
    /\ \E k \in endpointKeys(peerMap) :
          /\ endpointsOf(peerMap)[k].trustBestAddr
          /\ endpointsOf(peerMap)[k].bestAddr.addr = "a1"

\* a call of Rebind that has bound the IPv4 socket and returns on an open
\* Conn leaves no best address trusted and keeps candidates and round trips
ReboundInvalidatesTrust ==
    [][(RebindReset /\ ~conn'.closed) => TrustInvalidated]_vars

\* ------------------------------------------------------------------------
\* Specification of Rebind racing with the receive functions
\* ------------------------------------------------------------------------
\* the receive functions run while callers of Rebind re-bind the sockets,
\* and in the end Close is called
NextRace ==
    \/ \E i \in Rebinders : RaceRebind(i)
    \/ \E i \in Rebinders : RaceBindLock(i)
    \/ \E i \in Rebinders : RaceBindClose(i)
    \/ \E i \in Rebinders, ok \in BOOLEAN : RaceBindSet(i, ok)
    \/ \E i \in Rebinders : RaceReset(i)
    \/ \E f \in Families : RaceRead(f)
    \/ \E f \in Families : RaceReadDatagram(f)
    \/ \E f \in Families : RaceReadFails(f)
    \/ \E f \in Families : RaceReadCheck(f)
    \/ \E cl \in {1} : CloseBegin(cl)

SpecRace == Init /\ [][NextRace]_vars

InitBind ==
    /\ InitCore(newConn(FALSE)) /\ InitEarly
    /\ binder = newBinder /\ timer = NoTimer /\ notified = NoCalls
    /\ cmm = {}
    /\ determined = <<>>
    /\ duo = newDuo
    /\ link = NewEndpoint
    /\ callme = NoCallMe
    /\ pinger = newPinger

NextBind ==
    \/ \E port \in 0..MaxPort, free \in FreePorts : NewConnBind(port, free)
    \/ \E free \in FreePorts : RebindPorts(free)
    \/ \E port \in 0..MaxPort, free \in FreePorts :
          SetPreferredPortPorts(port, free)

SpecBind == InitBind /\ [][NextBind]_vars

\* a sequence without the elements that came earlier in it
RECURSIVE Distinct(_, _)
Distinct(ports, seen) ==
    IF ports = <<>> THEN <<>>
    ELSE IF ports[1] \in seen THEN Distinct(Tail(ports), seen)
         ELSE <<ports[1]>> \o Distinct(Tail(ports), seen \cup {ports[1]})

\* the order of the ports for the last bindSocket of the family f: the
\* preferred port if it is not 0, the port bound before if it is kept, then 0
PortOrder(f) ==
    Distinct((IF binder.port # 0 THEN <<binder.port>> ELSE <<>>)
             \o (IF binder.fate = keepCurrentPort
                    /\ binder.prior[f].kind # "nil"
                 THEN <<binder.prior[f].port>> ELSE <<>>)
             \o <<0>>, {})

\* the last bindSocket of the family f tried the ports in order and stopped
\* at the first it could bind; the socket is then a UDP socket on that port,
\* and a blockForeverConn when no port could be bound
TriedInOrder(f) ==
    LET t == binder.tried[f]
        n == Len(t)
    IN  /\ n >= 1 /\ n <= Len(PortOrder(f))
        /\ t = SubSeq(PortOrder(f), 1, n)
        /\ \A i \in 1..(n - 1) : t[i] \notin binder.free[f]
        /\ IF t[n] \in binder.free[f]
           THEN /\ ~binder.err[f]
                /\ binder.pconn[f].kind = "udp"
                /\ binder.pconn[f].port =
                      (IF t[n] = 0 THEN EphemeralPort ELSE t[n])
           ELSE /\ n = Len(PortOrder(f))
                /\ binder.err[f]
                /\ binder.pconn[f] = BlockForeverPconn

\* the ports are tried in order up to the first success, a socket that no
\* port could be bound for is a blockForeverConn, and no socket is left nil
BindTriesInOrder ==
    binder.state # "new"
       => \A f \in Families : TriedInOrder(f) /\ binder.pconn[f].kind # "nil"

\* C21: bindSocket tries the preferred port, the kept current port and then
\* an ephemeral port, up to the first success; when all fail the socket is a
\* placeholder, no socket is left empty, and the Conn is not given up
BindFallsBack ==
    /\ BindTriesInOrder
    /\ binder.state # "aborted"

\* NewConn found no IPv4 port to bind, port 0 included: the IPv4 socket is
\* the placeholder and NewConn has returned the error instead of a Conn
NewConnAbortedWitness ==
    /\ binder.state = "aborted"
    /\ binder.tried["udp4"] = <<1, 0>>
    /\ binder.pconn["udp4"] = BlockForeverPconn

\* a running Conn whose Rebind found no IPv4 port to bind keeps running on
\* the placeholder
RebindKeepsRunning ==
    /\ binder.state = "running"
    /\ binder.prior["udp4"].kind = "udp"
    /\ binder.tried["udp4"] = <<1, EphemeralPort, 0>>
    /\ binder.pconn["udp4"] = BlockForeverPconn

\* ------------------------------------------------------------------------
\* Specification of the periodic timer
\* ------------------------------------------------------------------------
\* idle times around sessionActiveTimeout, and none
IdleTimes == {NoIdle, 0, sessionActiveTimeout, sessionActiveTimeout + 1}

NextTimer ==
    \/ GoReSTUN
    \/ PeriodicTimerFires
    \/ doPeriodicSTUN
    \/ \E k \in SchedKeys : SetPrivateKey(k)
    \/ \E ps \in PeerSets : UpdatePeers(ps)
    \/ \E up \in BOOLEAN : SetNetworkUp(up)
    \/ \E g \in Goroutines : UpdStart(g)
    \/ \E g \in Goroutines, eps \in SchedEndpointLists :
          UpdDetermine(g, TRUE, eps)
    \/ \E g \in Goroutines : UpdSetEndpoints(g)
    \/ \E g \in Goroutines, idleFor \in IdleTimes, force \in BOOLEAN,
          r \in {0, 5} : UpdDoneTimed(g, idleFor, force, r)
    \/ CloseBegin(1)
    \/ CloseWait(1)

SpecTimer == Init /\ [][NextTimer]_vars

\* the goroutine g ends an update on an open Conn with no update wanted
UpdateEnds(g) ==
    /\ upd[g].pc = "done" /\ upd'[g].pc = "idle"
    /\ ~conn.closed
    /\ conn.wantEndpointsUpdate = NoReason

\* the network is up, there are peers, a private key is set, and the Conn was
\* not idle for more than 45 s (as far as it is known) or control forces
\* background STUN; the idle time and the override are those this update
\* read
WantsPeriodicReSTUN ==
    /\ conn.networkUp
    /\ conn.peerSet # {}
    /\ conn.privateKey # ZeroKey
    /\ timer'.idleFor <= 45 \/ timer'.force

\* C22: an update that ends on an open Conn with no update wanted arms the
\* timer with a delay of 20 s to 26 s if the network is up, there are peers,
\* a key is set and the Conn was idle for at most 45 s or background STUN is
\* forced, and stops the timer otherwise
TimerArmedWhenActive ==
    [][\A g \in Goroutines :
          UpdateEnds(g) =>
             IF WantsPeriodicReSTUN
             THEN /\ conn'.periodicReSTUNTimer = "armed"
                  /\ timer'.d >= 20 /\ timer'.d <= 26
             ELSE /\ conn'.periodicReSTUNTimer = "nil"
                  /\ timer'.d = 0]_vars

\* the timer is armed after an update on a Conn that was idle for 46 s,
\* because background STUN is forced
TimerForcedWitness ==
    /\ conn.periodicReSTUNTimer = "armed"
    /\ timer.idleFor = 46 /\ timer.force /\ timer.d = 25
    /\ ~conn.closed

\* the timer was armed and an update on the idle Conn has stopped it
TimerStoppedIdle ==
    /\ conn.periodicReSTUNTimer = "nil"
    /\ timer.idleFor = 46 /\ ~timer.force /\ timer.d = 0
    /\ conn.networkUp /\ conn.peerSet # {} /\ conn.privateKey # ZeroKey
    /\ ~conn.closed

\* ------------------------------------------------------------------------
\* Specification of the endpoint notifications
\* ------------------------------------------------------------------------
\* what determineEndpoints returns: no address twice, in any order; the
\* netcheck report has a STUN address only when there is a DERP map
NotifyEndpointLists ==
    {<<>>, <<EpStun>>, <<EpLocal>>, <<EpStun, EpLocal>>, <<EpLocal, EpStun>>}

NextNotify ==
    \/ onPortMapChanged
    \/ \E block \in BOOLEAN : SetBlockEndpoints(block)
    \/ \E dm \in BOOLEAN : SetDERPMap(dm)
    \/ GoReSTUN
    \/ \E g \in Goroutines : UpdStart(g)
    \/ \E g \in Goroutines, eps \in NotifyEndpointLists :
          /\ anySTUN(eps) => conn.derpMap
          /\ UpdDetermine(g, TRUE, eps)
    \/ \E g \in Goroutines : UpdSetEndpoints(g)
    \/ \E g \in Goroutines : UpdDone(g)

SpecNotify == Init /\ [][NextNotify]_vars

\* the endpoints of a list, as a set
EndpointSet(eps) == {eps[i] : i \in 1..Len(eps)}

\* the last two calls of epFunc had different sets of endpoints, and the last
\* one had those of lastEndpoints
NotifiedDistinct ==
    /\ notified.calls = 2
          => EndpointSet(notified.last) # EndpointSet(notified.prev)
    /\ notified.calls >= 1
          => EndpointSet(notified.last) = EndpointSet(conn.lastEndpoints)

\* epFunc is called in this step
Notifies == notified'.calls # notified.calls \/ notified'.last # notified.last

\* epFunc is called only with endpoints that differ, as a set, from
\* lastEndpoints
NotifiesChange ==
    \A g \in Goroutines :
       upd[g].pc = "setEndpoints" /\ Notifies
          => EndpointSet(upd[g].eps) # EndpointSet(conn.lastEndpoints)

\* C23: epFunc is called after an update only when the endpoints determined
\* differ as a set from lastEndpoints, two calls in a row never have the same
\* set, and the set of the last call is that of lastEndpoints
NotifyOnlyChanges == []NotifiedDistinct /\ [][NotifiesChange]_vars

\* the same, as long as SetBlockEndpoints was never called
NotifyOnlyChangesUnblocked ==
    /\ [](hist.blockCalls = 0 => NotifiedDistinct)
    /\ [][hist.blockCalls = 0 => NotifiesChange]_vars

\* endpoints are blocked, lastEndpoints is empty, and epFunc was called with
\* the same endpoints before and after the blocking
NotifiedBlockedWitness ==
    /\ conn.blockEndpoints
    /\ conn.lastEndpoints = <<>>
    /\ notified.calls = 2
    /\ notified.last = <<EpStun>> /\ notified.prev = <<EpStun>>

\* epFunc was called for a list and then for another, and not for the same
\* endpoints in another order
NotifiedUnblockedWitness ==
    /\ hist.blockCalls = 0
    /\ notified.calls = 2
    /\ notified.prev = <<EpStun, EpLocal>> /\ notified.last = <<EpLocal>>
    /\ conn.lastEndpoints = <<EpLocal>>

\* SetBlockEndpoints(true) changes the setting in this step
BlockingStarts == ~conn.blockEndpoints /\ conn'.blockEndpoints

\* an update is started, or wanted when the running one ends
UpdateTriggered ==
    /\ conn'.endpointsUpdateActive
    /\ IF conn.endpointsUpdateActive
       THEN conn'.wantEndpointsUpdate = WhySetBlockEndpoints
       ELSE \E g \in Goroutines :
               /\ upd[g].pc = "idle"
               /\ upd'[g].pc = "start"
               /\ upd'[g].why = WhySetBlockEndpoints

\* the goroutine g passes setEndpoints in this step
SetsEndpoints(g) == upd[g].pc = "setEndpoints" /\ upd'[g].pc = "done"

\* a step that blocks the endpoints triggers an update, an update that sets
\* the endpoints while they are blocked leaves lastEndpoints empty, and an
\* empty lastEndpoints stays empty while they are blocked
BlockingStep ==
    /\ BlockingStarts => UpdateTriggered
    /\ \A g \in Goroutines :
          SetsEndpoints(g) /\ conn.blockEndpoints
             => conn'.lastEndpoints = <<>>
    /\ conn.blockEndpoints /\ conn'.blockEndpoints /\ conn.lastEndpoints = <<>>
          => conn'.lastEndpoints = <<>>

\* C24: when SetBlockEndpoints(true) changes the setting an update is
\* started or queued, and once an update has set the endpoints under the
\* blocking lastEndpoints is empty and stays so while the blocking lasts
BlockEmptiesEndpoints == [][BlockingStep]_vars

\* the same for the updates that run while a DERP map is set
BlockEmptiesWithDerpMap == [][conn.derpMap => BlockingStep]_vars

\* the endpoints are blocked, the update that SetBlockEndpoints started has
\* ended and none is wanted, and lastEndpoints still has an endpoint
BlockedButAdvertised ==
    /\ conn.blockEndpoints
    /\ hist.blockCalls = 1
    /\ ~conn.endpointsUpdateActive
    /\ conn.wantEndpointsUpdate = NoReason
    /\ conn.lastEndpoints = <<EpStun>>

\* ------------------------------------------------------------------------
\* Specification of the blocking of endpoints
\* ------------------------------------------------------------------------
\* the pings and CallMeMaybes a peer sends, in boxes that open
BlockFrames ==
    {[kind |-> k, sender |-> dk, opens |-> TRUE, nodeKey |-> ZeroKey,
      txid |-> 1] :
        k \in {"ping", "callMeMaybe"}, dk \in DiscoKeys}

\* the direct paths are blocked and unblocked while the network map is set
\* and the peers' disco messages arrive by UDP and by the relay
NextBlock ==
    \/ \E k \in {1} : SetPrivateKey(k)
    \/ \E nm \in DiscoNetMaps : SetNetworkMap(nm)
    \/ \E block \in BOOLEAN : SetBlockEndpoints(block)
    \/ \E dm \in BlockFrames, src \in {"a1", "a2"} :
          handleDiscoMessage(dm, src, ZeroKey)
    \/ \E dm \in BlockFrames, derpNodeSrc \in {1, 2} :
          handleDiscoMessage(dm, DerpMagicIPAddr, derpNodeSrc)
    \/ \E nk \in {1, 2} : handleCallMeMaybe(nk)

SpecBlock == Init /\ [][NextBlock]_vars

\* the addresses other than the relay's among the candidates of the
\* endpoints in the peer map
DirectCandidates ==
    UNION {peerMap.heap[i].ep.endpointState \ {DerpMagicIPAddr} :
              i \in {j \in DOMAIN peerMap.heap : ~peerMap.heap[j].free}}

DetermineInputs ==
    {[portmapExt |-> pm, GlobalV4 |-> v4, localPort |-> lp, GlobalV6 |-> v6,
      ips |-> ips] :
        pm \in {NoAddr, "a1"}, v4 \in {NoAddr, "a1", "a2"},
        lp \in {NoAddr, "a2"}, v6 \in {NoAddr, "a2"},
        ips \in {<<>>, <<"a1">>, <<"a2">>, <<"a1", "a2">>}}

\* the endpoints are determined again and again, as time passes
NextDetermine ==
    \E now \in 0..MaxTime, in \in DetermineInputs : determineEndpoints(now, in)

SpecDetermine == Init /\ [][NextDetermine]_vars

\* C26: the list determineEndpoints returns holds each address at most once,
\* whichever of the port mapping, STUN, the tracker's cache and the local
\* interfaces gave it
DeterminedOnce ==
    \A i, j \in 1..Len(determined) :
        determined[i].Addr = determined[j].Addr => i = j

\* the list holds each address once in a round to which the cache of the
\* tracker adds nothing
DeterminedOnceUncached ==
    Len(tracker.ret) = Len(tracker.eps) => DeterminedOnce

\* determineEndpoints returned an address twice: the tracker added it from
\* its cache as the STUN address of an earlier round, and it was added again
\* as a local address
DeterminedTwiceWitness ==
    /\ tracker.called /\ tracker.eps = <<>>
    /\ determined = <<[Addr |-> "a1", Type |-> EndpointSTUN],
                      [Addr |-> "a1", Type |-> EndpointLocal]>>

\* ------------------------------------------------------------------------
\* Specification of two managers that find the direct path
\* ------------------------------------------------------------------------
\* the disco messages the two managers can send each other
DuoMessages ==
    {DuoMessage(m, kind, txid) :
        m \in Managers, kind \in {"ping", "pong"}, txid \in TxIDs}

NextDirect ==
    \/ \E m \in Managers : DuoSetNetworkMap(m)
    \/ \E m \in Managers : DuoSend(m)
    \/ \E msg \in DuoMessages : DuoReceive(msg)

\* each manager gets its network map, packets keep being sent both ways, and
\* what is sent by UDP arrives: DuoReceive(msg) is enabled exactly while msg
\* is in duo.net and is the only action that takes it out, so that weak
\* fairness of DuoReceive(msg) is that msg is not in duo.net again and again
FairDirect ==
    /\ Init /\ [][NextDirect]_vars
    /\ \A m \in Managers : WF_vars(DuoSetNetworkMap(m))
    /\ \A m \in Managers : WF_vars(DuoSend(m))
    /\ \A msg \in DuoMessages : []<>(msg \notin duo.net)

\* the manager m has the address of the other as best address, and trusts
\* it
SelectsDirect(m) ==
    LET pi == endpointForNodeKey(duo.mgr[m].pm, Other(m))
    IN  /\ pi # NoPeer
        /\ duo.mgr[m].pm.heap[pi].ep.bestAddr.addr = AddrOf(Other(m))
        /\ duo.mgr[m].pm.heap[pi].ep.trustBestAddr

DuoBothSent == \A m \in Managers : duo.mgr[m].sent

NextLink ==
    \/ \E i \in Writers, k \in {1, 2} : WritePackets(i, k)
    \/ \E i \in Writers : queueWriteRLock(i)
    \/ \E i \in Writers : queueWriteSelect(i)
    \/ queueRead
    \/ queueCloseBegin
    \/ queueCloseLocked
    \/ Drain

\* the writers and Close go on when they can; nothing makes anyone read
FairLink ==
    /\ Init /\ [][NextLink]_vars
    /\ \A i \in Writers : WF_vars(queueWriteRLock(i))
    /\ \A i \in Writers : WF_vars(queueWriteSelect(i))
    /\ WF_vars(queueCloseLocked)
    /\ WF_vars(Drain)

\* the writer i is in the select of queue.Write with the queue full and
\* closedCh open
BlockedOnFull(i) ==
    /\ link.w[i].pc = "select"
    /\ Len(link.c) = QueueSize
    /\ ~link.closedCh

\* no write sends on the closed channel: a writer is in the select of
\* queue.Write, where it sends, only while q.c is open
NoSendOnClosed ==
    \A i \in Writers : link.w[i].pc = "select" => link.cOpen

\* once Close has returned the queue is empty
EmptyAfterClose == link.closer = "done" => link.c = <<>>

\* a write that began after Close had returned does not reach the select,
\* fails with ErrClosedForSend having queued nothing, and leaves the
\* reference counts of its packets as they were
LateWriteFails(i) ==
    link.w[i].late
       => /\ link.w[i].pc \in {"rlock", "idle"}
          /\ link.w[i].ref = 0
          /\ link.w[i].pc = "idle"
                => link.w[i].ret = <<0, ErrClosedForSend>>

\* a write that has returned took a reference for each packet it queued
\* and for no other
RefsAreQueued(i) == link.w[i].pc = "idle" => link.w[i].ref = link.w[i].n

\* C40: for every interleaving of Endpoint.Close with concurrent
\* WritePackets calls no write sends on the closed channel, and once Close
\* has returned the queue is empty and stays empty: every later write fails
\* with ErrClosedForSend and leaves the reference count of the packet
\* unchanged
CloseSafeWithWriters ==
    /\ NoSendOnClosed
    /\ EmptyAfterClose
    /\ \A i \in Writers : LateWriteFails(i) /\ RefsAreQueued(i)

\* Close has returned; one writer was blocked on the full queue when Close
\* began and was released, the other called WritePackets after Close had
\* returned and got ErrClosedForSend
LateWriteWitness ==
    /\ link.closer = "done"
    /\ \E i, j \in Writers :
          /\ link.w[i].late /\ link.w[i].pc = "idle"
          /\ link.w[i].ret = <<0, ErrClosedForSend>>
          /\ ~link.w[j].late /\ link.w[j].atClose /\ link.w[j].pc = "idle"
          /\ link.w[j].ret[2] = ErrClosedForSend

\* while the channel is open, the packets read and then those in the queue
\* are the packets written, in the order in which their writes completed
ReadInWriteOrder == link.cOpen => link.reads \o link.c = link.done

\* a writer blocked on the full queue stays in the select, with its packets
BlockedStays ==
    \A i \in Writers :
       BlockedOnFull(i) => /\ link'.w[i].pc = "select"
                           /\ link'.w[i].pkts = link.w[i].pkts
                           /\ link'.w[i].n = link.w[i].n

\* a writer whose call found the queue full wrote its packet only after it
\* was read that made room
WrittenAfterRead ==
    \A i \in Writers :
       (link.w[i].pc = "select" /\ link'.w[i].n = link.w[i].n + 1)
          => Len(link.c) < QueueSize

UnblockedByClose ==
    {i \in Writers : link.w[i].atClose /\ link.w[i].pc = "idle"}

\* Close, once begun, returns, and the calls that were blocked on the full
\* queue return
CloseReturnsUnblocking ==
    (link.closer = "lock")
       ~> (link.closer = "done" /\ \A i \in Writers :
                                      link.w[i].atClose
                                         => link.w[i].pc = "idle")

\* C30: Close unblocks every WritePackets call that is blocked on the full
\* queue: each returns 0 packets written and ErrClosedForSend, and Close
\* returns
CloseUnblocksWithZero ==
    /\ [](\A i \in UnblockedByClose :
             link.w[i].ret = <<0, ErrClosedForSend>>)
    /\ CloseReturnsUnblocking

\* Close unblocks every WritePackets call that is blocked on the full queue
\* and returns: each such call returns ErrClosedForSend and the number of
\* packets it had queued when it blocked, unless a Read made room and the
\* packet it was blocked on was queued
CloseUnblocksWrites ==
    /\ [](\A i \in UnblockedByClose :
             \/ link.w[i].ret = <<link.w[i].nAtClose, ErrClosedForSend>>
             \/ (link.w[i].ret[1] > link.w[i].nAtClose /\ link.reads # <<>>))
    /\ CloseReturnsUnblocking

\* Close has returned, and a call of WritePackets with two packets that was
\* blocked on the second when Close began has returned 1 and
\* ErrClosedForSend, nothing having been read
ClosedAfterOneWitness ==
    /\ link.closer = "done"
    /\ link.reads = <<>>
    /\ \E i \in Writers :
          /\ link.w[i].atClose /\ link.w[i].nAtClose = 1
          /\ link.w[i].pc = "idle"
          /\ link.w[i].ret = <<1, ErrClosedForSend>>

\* Close has returned and the call blocked on its first packet has returned 0
\* and ErrClosedForSend
ClosedAfterNoneWitness ==
    /\ link.closer = "done"
    /\ \E i \in Writers :
          /\ link.w[i].atClose /\ link.w[i].pc = "idle"
          /\ link.w[i].ret = <<0, ErrClosedForSend>>

\* ------------------------------------------------------------------------
\* enqueueCallMeMaybe
\* ------------------------------------------------------------------------
WhyRefreshForPeering == "refresh-for-peering"

\* seconds for which a STUN-derived endpoint is taken to be valid
endpointsFreshEnoughDuration == 27

\* the clock advances in steps of half of that
TickSeconds == endpointsFreshEnoughDuration \div 2

\* c.lastEndpointsTime.After(time.Now().Add(-endpointsFreshEnoughDuration));
\* the zero Time is before every time
freshEnough(last, now) ==
    last # NoTime /\ After(last, now - endpointsFreshEnoughDuration)

\* disco.CallMeMaybe{MyNumber: eps}; deferred is whether a func of
\* onEndpointRefreshed sent it, seq tells it from the one sent before
CallMeMaybe(eps, deferred, before) ==
    [sent |-> TRUE, MyNumber |-> {eps[i].Addr : i \in 1..Len(eps)},
     deferred |-> deferred, seq |-> ~before.seq]

\* the body of enqueueCallMeMaybe(derpAddr, de) on the Conn state c, for the
\* endpoint de of a node key: nothing for an endpoint without a disco key;
\* with stale endpoints the func that calls it again is kept in
\* onEndpointRefreshed and "go c.ReSTUN" is started; else sendDiscoMessage
\* is started with the addresses of lastEndpoints
enqueueCallMeMaybeLocked(c, de, deferred) ==
    IF peerMap.heap[peerMap.byNodeKey[de]].ep.disco = <<>>
    THEN conn' = c /\ UNCHANGED callme
    ELSE IF ~freshEnough(c.lastEndpointsTime, callme.now)
    THEN /\ conn' = [c EXCEPT !.onEndpointRefreshed = @ \cup {de},
                              !.spawned = WhyRefreshForPeering]
         /\ UNCHANGED callme
    ELSE /\ conn' = c
         /\ callme' = [callme EXCEPT !.sent[de] =
                          CallMeMaybe(c.lastEndpoints, deferred, @)]

\* "go de.c.enqueueCallMeMaybe(derpAddr, de)" by an endpoint of the peer map
\* that sends its pings
enqueueCallMeMaybe(de) ==
    /\ peerMap.byNodeKey[de] # NoPeer
    /\ enqueueCallMeMaybeLocked(conn, de, FALSE)
    /\ UNCHANGED <<xSock, xBind, xClose, upd, rebinder, hist, peerMap, netMap,
                   derpWriteCh, sender, xEarly, xLateButCallme>>

\* the func of onEndpointRefreshed that setEndpoints started for the
\* endpoint de runs
endpointRefreshedFn(de) ==
    /\ de \in conn.refreshedFns
    /\ peerMap.byNodeKey[de] # NoPeer
    /\ enqueueCallMeMaybeLocked([conn EXCEPT !.refreshedFns = @ \ {de}], de,
                                TRUE)
    /\ UNCHANGED <<xSock, xBind, xClose, upd, rebinder, hist, peerMap, netMap,
                   derpWriteCh, sender, xEarly, xLateButCallme>>

\* time passes
Tick ==
    /\ callme.now + TickSeconds <= MaxTicks * TickSeconds
    /\ callme' = [callme EXCEPT !.now = @ + TickSeconds]
    /\ UNCHANGED <<conn, xSock, xBind, xClose, upd, rebinder, hist, peerMap,
                   netMap, derpWriteCh, sender, xEarly, xLateButCallme>>

\* ------------------------------------------------------------------------
\* Specification of the deferred CallMeMaybe
\* ------------------------------------------------------------------------
\* a network map with a peer that has a disco key and one that has none
CallMeNetMaps ==
    {[isNil |-> FALSE,
      Peers |-> <<DiscoNode(1, 1), DiscoNode(2, ZeroKey)>>]}

\* the lists determineEndpoints gives
CallMeEndpointLists == {<<EpStun>>, <<EpLocal>>}

NextCallMe ==
    \/ \E k \in SchedKeys : SetPrivateKey(k)
    \/ \E nm \in CallMeNetMaps : SetNetworkMap(nm)
    \/ \E de \in {1, 2} : enqueueCallMeMaybe(de)
    \/ \E de \in {1, 2} : endpointRefreshedFn(de)
    \/ GoReSTUN
    \/ \E g \in Goroutines : UpdStart(g)
    \/ \E g \in Goroutines : UpdDetermineFails(g)
    \/ \E g \in Goroutines, eps \in CallMeEndpointLists :
          UpdDetermine(g, TRUE, eps)
    \/ \E g \in Goroutines : UpdSetEndpoints(g)
    \/ \E g \in Goroutines : UpdDone(g)
    \/ Tick

SpecCallMe == Init /\ [][NextCallMe]_vars

\* the endpoints were recorded less than endpointsFreshEnoughDuration ago
RecordedLately ==
    /\ conn.lastEndpointsTime # NoTime
    /\ callme.now - conn.lastEndpointsTime < endpointsFreshEnoughDuration

\* a step starts the send of a CallMeMaybe to the endpoint de
SendsCallMeMaybe(de) == callme'.sent[de] # callme.sent[de]

\* C33: a CallMeMaybe is sent to a peer only when the local endpoints were
\* recorded less than endpointsFreshEnoughDuration ago, and it carries the
\* endpoints recorded then; while they are staler no CallMeMaybe is sent: a
\* request is kept in onEndpointRefreshed with a ReSTUN started, and stays
\* there until setEndpoints records the endpoints of an update
CallMeMaybeOnlyFresh ==
    /\ [](conn.onEndpointRefreshed # {} => ~RecordedLately)
    /\ [][\A de \in NodeKeys :
            /\ SendsCallMeMaybe(de) =>
                  /\ RecordedLately
                  /\ callme'.sent[de].MyNumber =
                        {conn.lastEndpoints[i].Addr :
                            i \in 1..Len(conn.lastEndpoints)}
            /\ (de \in conn.onEndpointRefreshed' \ conn.onEndpointRefreshed)
                  => /\ conn'.spawned = WhyRefreshForPeering
                     /\ ~SendsCallMeMaybe(de)
            /\ (de \in conn.onEndpointRefreshed
                  /\ de \notin conn'.onEndpointRefreshed
                  /\ conn'.privateKey # ZeroKey)
                  => /\ conn'.lastEndpointsTime = callme.now
                     /\ de \in conn'.refreshedFns]_vars

\* a CallMeMaybe that was deferred at a time when the endpoints were stale
\* was sent after an update recorded its endpoints, with those endpoints
DeferredSentWitness ==
    /\ callme.sent[1].sent /\ callme.sent[1].deferred
    /\ callme.sent[1].MyNumber = {"a1"}
    /\ conn.lastEndpointsTime >= endpointsFreshEnoughDuration
    /\ conn.onEndpointRefreshed = {} /\ conn.refreshedFns = {}

\* ------------------------------------------------------------------------
\* Specification of the deferred CallMeMaybe under fair scheduling
\* ------------------------------------------------------------------------
\* determineEndpoints returns, with an error or with endpoints
UpdDetermined(g) ==
    \/ UpdDetermineFails(g)
    \/ \E eps \in CallMeEndpointLists : UpdDetermine(g, TRUE, eps)

NextFairCallMe ==
    \/ \E k \in {1} : SetPrivateKey(k)
    \/ \E nm \in CallMeNetMaps : SetNetworkMap(nm)
    \/ \E ps \in {{"n1"}} : UpdatePeers(ps)
    \/ \E de \in {1} : enqueueCallMeMaybe(de)
    \/ \E de \in {1} : endpointRefreshedFn(de)
    \/ GoReSTUN
    \/ PeriodicTimerFires
    \/ doPeriodicSTUN
    \/ \E g \in Goroutines : UpdStart(g)
    \/ \E g \in Goroutines : UpdDetermined(g)
    \/ \E g \in Goroutines : UpdSetEndpoints(g)
    \/ \E g \in Goroutines : UpdDone(g)
    \/ Tick

\* every started goroutine runs: those of "go c.ReSTUN", of the timer, of
\* updateEndpoints and of the funcs of onEndpointRefreshed; an armed timer
\* fires; nothing makes determineEndpoints succeed
FairCallMe ==
    /\ Init /\ [][NextFairCallMe]_vars
    /\ WF_vars(GoReSTUN)
    /\ WF_vars(PeriodicTimerFires)
    /\ WF_vars(doPeriodicSTUN)
    /\ \A g \in Goroutines : WF_vars(UpdStart(g))
    /\ \A g \in Goroutines : WF_vars(UpdDetermined(g))
    /\ \A g \in Goroutines : WF_vars(UpdSetEndpoints(g))
    /\ \A g \in Goroutines : WF_vars(UpdDone(g))
    /\ WF_vars(endpointRefreshedFn(1))

\* the func that sends the CallMeMaybe for the endpoint de is kept in
\* onEndpointRefreshed, or was started and has not run
Pending(de) == de \in conn.onEndpointRefreshed \cup conn.refreshedFns

\* the deferred CallMeMaybe for de was sent and none is pending, or the
\* Conn has no private key, or the peer is not in the peer map
SentOrGone(de) ==
    \/ callme.sent[de].sent /\ callme.sent[de].deferred /\ ~Pending(de)
    \/ conn.privateKey = ZeroKey
    \/ conn.closed
    \/ peerMap.byNodeKey[de] = NoPeer

\* C39: a call-me-maybe that was deferred because the local endpoints were
\* stale is eventually sent: under fair scheduling, while the Conn stays open
\* with a private key and the peer stays in the peer map, the endpoint update
\* that was triggered completes and runs the pending func, which sends it
DeferredEventuallySent ==
    (1 \in conn.onEndpointRefreshed) ~> SentOrGone(1)

\* the same, given that endpoints are recorded again and again
DeferredSentWhenRecorded ==
    []<>RecordedLately => DeferredEventuallySent

\* the func is pending, the update that was started for it has ended
\* without recording endpoints, and no update is running or wanted
DeferredLostWitness ==
    /\ 1 \in conn.onEndpointRefreshed
    /\ conn.privateKey # ZeroKey
    /\ peerMap.byNodeKey[1] # NoPeer
    /\ ~conn.endpointsUpdateActive
    /\ conn.spawned = NoReason
    /\ conn.periodicReSTUNTimer = "nil"
    /\ ~conn.timerGoroutine

\* ------------------------------------------------------------------------
\* Specification of the sockets after Close
\* ------------------------------------------------------------------------
\* endpoint updates that re-bind after a netcheck that could not send over
\* IPv4, Rebind on link changes, SetPreferredPort, and Close
NextShut ==
    \/ \E dm \in {TRUE} : SetDERPMap(dm)
    \/ \E k \in {1} : SetPrivateKey(k)
    \/ GoReSTUN
    \/ \E g \in Goroutines : UpdStart(g)
    \/ \E g \in Goroutines : UpdCheckClosed(g)
    \/ \E g \in Goroutines, ok4 \in BOOLEAN : UpdRebind(g, ok4, TRUE)
    \/ \E g \in Goroutines : UpdReset(g)
    \/ \E g \in Goroutines : UpdDetermineFails(g)
    \/ \E g \in Goroutines, canSend4 \in BOOLEAN,
          eps \in CloseEndpointLists : UpdDetermine(g, canSend4, eps)
    \/ \E g \in Goroutines : UpdSetEndpoints(g)
    \/ \E g \in Goroutines : UpdDone(g)
    \/ Rebind
    \/ \E port \in 0..MaxPort : SetPreferredPort(port)
    \/ RebindReset
    \/ \E cl \in Closers : CloseBegin(cl)
    \/ \E cl \in Closers : CloseWait(cl)

SpecShut == Init /\ [][NextShut]_vars

\* C37: after Conn.Close has returned the UDP sockets stay closed: no later
\* call (Rebind, SetPreferredPort, a late updateEndpoints that wants to
\* re-bind) binds a new socket
SocketsStayClosed ==
    CloseHasReturned => \A f \in Families : ~pconn[f].open

\* Rebind and updateEndpoints open no socket of a closed Conn: a step that
\* does is a step of SetPreferredPort, which changes the preferred port
OnlyPortRebindsClosed ==
    [][conn.closed /\ conn'.port = conn.port
          => \A f \in Families : pconn'[f].open => pconn[f].open]_vars

\* SetPreferredPort has bound a UDP socket on the Conn whose Close returned
BoundAfterCloseWitness ==
    /\ CloseHasReturned
    /\ conn.port # newConn(FALSE).port
    /\ pconn["udp4"] = UDPConn
    /\ rebinder = "reset"

\* ------------------------------------------------------------------------
\* Specification of shutdown under fair scheduling
\* ------------------------------------------------------------------------
FairNetMaps ==
    {[isNil |-> FALSE, Peers |-> ps] :
        ps \in {<<[Key |-> 1, DiscoKey |-> 1, IsWireGuardOnly |-> FALSE,
                  Endpoints |-> {}]>>}}

\* a step of the updateEndpoints goroutine g
UpdStep(g) ==
    \/ UpdStart(g)
    \/ UpdCheckClosed(g)
    \/ \E ok4 \in {TRUE} : UpdRebind(g, ok4, TRUE)
    \/ UpdReset(g)
    \/ UpdDetermineFails(g)
    \/ \E canSend4 \in {FALSE}, eps \in CloseEndpointLists :
          UpdDetermine(g, canSend4, eps)
    \/ UpdSetEndpoints(g)
    \/ UpdDone(g)

\* a Conn in service: it has a private key and a DERP map, its last netcheck
\* could not send over IPv4, and it is connecting to its home DERP
connInService ==
    [newConn(FALSE) EXCEPT !.privateKey = 1, !.everHadKey = TRUE,
                           !.derpMap = TRUE, !.noV4Send = TRUE,
                           !.myDerp = TRUE, !.activeDerp = TRUE,
                           !.derpConnecting = TRUE,
                           !.lastEndpoints = <<EpStun>>]

InitFairClose == InitFrom(connInService)

NextFairClose ==
    \/ onPortMapChanged
    \/ \E block \in {TRUE} : SetBlockEndpoints(block)
    \/ \E nm \in FairNetMaps : SetNetworkMap(nm)
    \/ DerpConnectDone
    \/ RunDerpReader
    \/ \E g \in Goroutines : UpdStep(g)
    \/ BindOpen
    \/ BindCloseLock
    \/ BindCloseSend
    \/ \E f \in Families : UDPReadFails(f)
    \/ \E f \in Families : UDPReadRetries(f)
    \/ ReceiveDERPTake
    \/ ReceiveDERPCheck
    \/ \E cl \in {1} : CloseBegin(cl)
    \/ \E cl \in {1} : CloseWait(cl)

\* every goroutine that can take a step is scheduled: the updateEndpoints
\* goroutines, the relay connect, the receive functions
\* and the callers of Close and of connBind.Close once they hold the lock
FairClose ==
    /\ InitFairClose /\ [][NextFairClose]_vars
    /\ \A g \in Goroutines : WF_vars(UpdStep(g))
    /\ WF_vars(DerpConnectDone)
    /\ WF_vars(BindCloseSend)
    /\ \A f \in Families : WF_vars(UDPReadFails(f) \/ UDPReadRetries(f))
    /\ WF_vars(ReceiveDERPTake)
    /\ WF_vars(ReceiveDERPCheck)
    /\ WF_vars(CloseWait(1))

\* a Close call that has begun returns
CloseReturns == (closer[1] = "waiting") ~> (closer[1] = "returned")

\* connBind.mu, once taken, is released again
BindMuReleased == (bind.mu = "Close") ~> (bind.mu = "free")

\* C6: Conn.Close always returns, and nothing waits forever for Conn.mu,
\* connBind.mu or room on derpRecvCh
CloseTerminates == CloseReturns /\ BindMuReleased

\* Close has waited for a running update and returned, connBind.Close has
\* returned, and the receive functions have ended
CloseTerminatesWitness ==
    /\ hist.closeWaited /\ closer[1] = "returned"
    /\ bind.closed /\ bind.mu = "free"
    /\ \A fn \in RecvFns : recv[fn] = "done"

====
